---- MODULE Spec2Model ----
(***************************************************************************)
(* Model of the TP357 BLE gateway pipeline: the MessageQueue, the two      *)
(* windowed aggregators (DataProcessor, RestApiConsumer) that main() wires  *)
(* to one shared queue, and the BluetoothScanner scan loop with its         *)
(* cancellation pipe and handler dispatch.                                  *)
(***************************************************************************)
EXTENDS Integers, Sequences, FiniteSets, TLC

(***************************************************************************)
(* Bounds of the model.                                                     *)
(***************************************************************************)
\* number of Readings the producer (the device handler) pushes
MaxPush == 2
\* logging_window_duration_ expressed in clock ticks
WindowTicks == 2
\* number of Readings pushed in the runs checked for termination
MaxLivePush == 1
\* number of handlers registered with the scanner
MaxHandlers == 2
\* number of frames the controller delivers
MaxFrames == 2
\* number of frames delivered in the fair scanner specification
MaxLiveFrames == 1
\* number of stopScan() calls besides the destructor's
MaxScanStops == 2
\* number of items the producer pushes to the MessageQueue
MaxItems == 3
\* number of pop calls that return, per consumer
MaxPops == 2

(***************************************************************************)
(* SensorData and the values the model draws from.                          *)
(***************************************************************************)
\* the two consumers main() creates on sensor_data_queue
Aggs == {"dp", "rest"}

\* device addresses of the advertisements that arrive
Macs == {"E2:76:F5:4B:E4:F0", "F8:5F:2B:62:E5:F5"}

\* std::map iteration order of the keys that occur (lexicographic)
KeyOrder == << "", "E2:76:F5:4B:E4:F0", "F8:5F:2B:62:E5:F5" >>

\* tp357_handler->setDeviceName(mac, name): the labels main() configures
PredefinedName(mac) ==
    IF mac = "E2:76:F5:4B:E4:F0" THEN "Living Room Sensor"
    ELSE IF mac = "F8:5F:2B:62:E5:F5" THEN "Kitchen Sensor"
    ELSE ""

\* SensorData(): the default-constructed dummy that stopConsuming() pushes
DefaultSensorData ==
    [mac_address |-> "", predefined_name |-> "", decoded_device_name |-> "",
     temperature |-> 0, timestamp |-> 0]

\* SensorData(mac, p_name, d_name, temp, hum, rssi, ts): the n-th reading captured;
\* its capture time and its measured value are both n
MkSensorData(mac, n) ==
    [mac_address |-> mac, predefined_name |-> PredefinedName(mac),
     decoded_device_name |-> "TP357", temperature |-> n, timestamp |-> n]

Min(x, y) == IF x < y THEN x ELSE y
Max(x, y) == IF x > y THEN x ELSE y

(***************************************************************************)
(* std::map<std::string, SensorData> as a set of key/value pairs.           *)
(***************************************************************************)
MapKeys(m) == { e.key : e \in m }

\* an emptiness test that never reports an empty mapping
MapEmptyNever(m) == FALSE

\* latest_samples_in_window_.empty()
MapEmpty(m) == m = {}

\* m[k] = v with an insert that leaves an existing entry in place
MapAssignKeepBoth(m, k, v) == m \cup { [key |-> k, value |-> v] }

\* latest_samples_in_window_[k] = v
MapAssign(m, k, v) == { e \in m : e.key # k } \cup { [key |-> k, value |-> v] }

(***************************************************************************)
(* SensorDataSerializer::serializeSensorDataMap                             *)
(***************************************************************************)
\* the six address bytes written for a mac string: sscanf must parse six hex
\* bytes, otherwise six zero bytes are written
MacBytes(mac) == IF mac \in Macs THEN mac ELSE "00:00:00:00:00:00"

\* one 23-byte entry: address bytes and the numeric fields, names dropped
SerializeEntry(d) == [mac |-> MacBytes(d.mac_address), temperature |-> d.temperature]

RECURSIVE SerializeFrom(_, _)
SerializeFrom(m, i) ==
    IF i > Len(KeyOrder) THEN << >>
    ELSE LET here == { e \in m : e.key = KeyOrder[i] }
             RECURSIVE Emit(_)
             Emit(s) == IF s = {} THEN << >>
                        ELSE LET e == CHOOSE x \in s : TRUE
                             IN  << SerializeEntry(e.value) >> \o Emit(s \ {e})
         IN  Emit(here) \o SerializeFrom(m, i + 1)

serializeSensorDataMap(m) ==
    [count |-> Cardinality(m) % 256, entries |-> SerializeFrom(m, 1)]

\* the blob of a sink that has not been written to
NoBlob == [count |-> 0, entries |-> << >>]

(***************************************************************************)
(* State                                                                    *)
(***************************************************************************)
VARIABLES
    queue_,                 \* MessageQueue::queue_
    keep_running_,          \* per aggregator: std::atomic<bool> keep_running_
    joinable,               \* per aggregator: processing_thread_.joinable()
    loop_pc,                \* per aggregator: position of its loop thread
    received_data,          \* per aggregator: the value pop returned
    latest_samples_in_window_,  \* per aggregator: the window mapping
    elapsed_in_window,      \* per aggregator: now - window_start_time_, saturated
    remaining_time,         \* per aggregator: ticks left of the pop timeout
    sink,                   \* per aggregator: the blob last handed to its sink
    ctl_pc,                 \* controlling thread: position inside stopConsuming()
    ctl_agg,                \* controlling thread: aggregator being stopped
    started,                \* per aggregator: main() has called startConsuming()
    push_budget,            \* number of readings the producer will push in this run
    pushed,                 \* history: number of readings pushed by the producer
    lastPushed,             \* history: per address, capture time of the last reading pushed
    lastPopped,             \* history: per aggregator and address, last reading popped in this window
    written,                \* history: per address, latest capture time handed to any sink
    stopSnap,               \* history: what held when the running stopConsuming() was called
    attempts,               \* history: per aggregator, number of write calls made to its sink
    last_ok,                \* history: per aggregator, whether its last write call succeeded
    sink_faulty,            \* environment: sink writes may fail in this run
    last_check,             \* history: per aggregator, what its last deadline check found
    track_checks            \* whether this run records last_check

aggVars == << queue_, keep_running_, joinable, loop_pc, received_data,
              latest_samples_in_window_, elapsed_in_window, remaining_time, sink,
              ctl_pc, ctl_agg, started, push_budget, pushed, lastPushed,
              lastPopped, written, stopSnap , attempts,
             last_ok, sink_faulty, last_check, track_checks >>

(***************************************************************************)
(* State of the BluetoothScanner                                            *)
(***************************************************************************)
VARIABLES
    dd_,                    \* BluetoothScanner::dd_
    pipefd_,                \* BluetoothScanner::pipefd_[2]
    scan_keep_running_,     \* BluetoothScanner::keep_running_
    device_handlers_,       \* BluetoothScanner::device_handlers_
    dev_open,               \* kernel: the controller descriptor is open
    scan_enabled,           \* controller: LE scanning is enabled
    pipe_open,              \* kernel: the two pipe descriptors are open
    pipe_bytes,             \* kernel: bytes waiting in the pipe
    init_called,            \* main() has called init()
    scan_pc,                \* scan thread: position inside startScan()
    sel_dd,                 \* scan thread: the descriptor it put into fds
    sel_ready,              \* scan thread: descriptors select() reported readable
    stop_pc,                \* stopping thread: position inside stopScan()
    in_dtor,                \* stopping thread: stopScan() was called by the destructor
    destroyed,              \* the scanner object has been destroyed
    scanStops,              \* history: number of stopScan() calls
    closes,                 \* history: number of hci_close_dev() calls by stopScan()
    disables,               \* history: number of scan-disable commands by stopScan()
    bad_fd_op,              \* history: a write or close was issued on descriptor -1
    frames,                 \* history: number of frames read
    last_frame,             \* history: device names of the reports of the last frame
    invoked,                \* history: per report of the last frame, handlers whose handle() ran
    last_hdr,               \* history: bytes read and header fields of the last frame
    frame_outcome,          \* history: what the loop did with the last frame
    frame_budget,           \* environment: number of frames the controller delivers
    track_errors,           \* whether this run records last_error
    last_error,             \* history: errno of the last failed select() or read()
    init_result             \* history: what init() returned

scanVars == << dd_, pipefd_, scan_keep_running_, device_handlers_, dev_open,
               scan_enabled, pipe_open, pipe_bytes, init_called, scan_pc, sel_dd,
               sel_ready, stop_pc, in_dtor, destroyed, scanStops, closes,
               disables, bad_fd_op, frames, last_frame, invoked, last_hdr,
               frame_outcome, frame_budget, init_result, track_errors,
               last_error >>

(***************************************************************************)
(* State of a MessageQueue with its calling threads                         *)
(***************************************************************************)
VARIABLES
    mq_queue,               \* MessageQueue::queue_, items named by their push ordinal
    mq_mutex,               \* MessageQueue::mutex_: "free" or the thread that holds it
    mq_pc,                  \* per consumer: position inside pop
    mq_mode,                \* per consumer: "pop" or "timed", the pop it is in
    mq_wake,                \* per consumer: why its last wait ended
    mq_ret,                 \* history, per consumer: values returned, 0 for no value
    mq_prod,                \* producer: position inside push
    mq_pushed               \* history: number of items pushed

mqVars == << mq_queue, mq_mutex, mq_pc, mq_mode, mq_wake, mq_ret, mq_prod, mq_pushed >>

(***************************************************************************)
(* State of one call of an advertising data decoder                         *)
(***************************************************************************)
VARIABLES
    dec_data,               \* the bytes the records of the advertisement were sent as
    dec_len,                \* int len: the length the caller passes
    dec_stale,              \* what the memory behind the bytes holds
    dec_kind,               \* which decoder runs: "general" or "tp357"
    dec_pc,                 \* position of the call: "idle", "loop", "done"
    offset,                 \* int offset
    device_name_out,        \* std::string& device_name_out
    temperature_out,        \* double& temperature_out, in tenths of a degree
    humidity_out,           \* double& humidity_out
    dec_maxread,            \* history: highest index of data[] read, -1 when none
    dec_recs,               \* history: the records the bytes were built from
    dec_offsets             \* history: the offsets at which a length byte was read

decVars == << dec_data, dec_len, dec_stale, dec_kind, dec_pc, offset,
              device_name_out, temperature_out, humidity_out, dec_maxread,
              dec_recs, dec_offsets >>

(***************************************************************************)
(* State of one serialization and of the receiver's decoding of its blob    *)
(***************************************************************************)
VARIABLES
    ser_map,                \* the data_map argument: its values in iteration order
    ser_blob,               \* the bytes serializeSensorDataMap returned
    ser_decoded,            \* what decodeSensorDataBlob returned, and its final offset
    ser_pc                  \* "idle", "serialized", "decoded"

serVars == << ser_map, ser_blob, ser_decoded, ser_pc >>

(***************************************************************************)
(* State of main() and of signal_handler                                    *)
(***************************************************************************)
VARIABLES
    main_pc,                \* position of main()
    main_i,                 \* main(): consumers passed in the current for loop
    g_consumers_mutex,      \* "free", or who holds it: "main" or "handler"
    g_scanner_ptr,          \* whether g_scanner_ptr points to the scanner
    g_consumers,            \* per consumer of the vector: "created", "running", "stopped"
    scanner_thread,         \* "none", "running", "exited"
    scan_stopped,           \* whether stopScan() was called on the scanner
    sig_pc,                 \* position of signal_handler: "none" when it does not run
    sig_thread,             \* the thread signal_handler interrupted
    sig_i,                  \* signal_handler: consumers passed in its for loop
    sig_count               \* SIGINTs delivered so far

mainVars == << main_pc, main_i, g_consumers_mutex, g_scanner_ptr, g_consumers,
               scanner_thread, scan_stopped, sig_pc, sig_thread, sig_i, sig_count >>

(***************************************************************************)
(* State of the report loop of startScan() over the bytes of one frame      *)
(***************************************************************************)
VARIABLES
    buf,                    \* the len bytes read(dd_) put into buf
    buf_stale,              \* what buf holds behind the bytes read
    rep_pc,                 \* "idle", "loop" (inside the for loop), "done"
    reports_count,          \* meta->data[0] as the loop read it
    ptr,                    \* ptr as an index into buf, counted from 0
    rep_i,                  \* the loop counter i
    rep_calls,              \* history: per report considered, what was passed on
    rep_maxread,            \* history: highest index of buf read, -1 for none
    rep_reports,            \* history: the reports the frame was built from
    rep_declared            \* history: the report count the frame declares

repVars == << buf, buf_stale, rep_pc, reports_count, ptr, rep_i, rep_calls,
              rep_maxread, rep_reports, rep_declared >>

(***************************************************************************)
(* State of the computation of the pop timeout of the consumer loops        *)
(***************************************************************************)
VARIABLES
    logging_window_seconds, \* the configured window duration, in seconds
    elapsed_ms,             \* elapsed_in_window at the last reading of the clock
    timeout_ms,             \* remaining_time as passed to pop, 0 before the first pop
    win_pc                  \* "idle", "now" (before the computation), "pop"

winVars == << logging_window_seconds, elapsed_ms, timeout_ms, win_pc >>

(***************************************************************************)
(* State of one aggregator with latest_samples_mutex_ as a lock of its own  *)
(***************************************************************************)
VARIABLES
    latest_samples_mutex_,  \* the thread that holds the mutex, or "none"
    own_keep_running,       \* keep_running_
    own_queue,              \* the addresses of the values in the queue
    own_loop_pc,            \* position of the loop thread
    own_stop_pc,            \* position of the thread inside stopConsuming()
    own_received,           \* the address of the value pop returned
    own_window,             \* the keys of latest_samples_in_window_
    own_pushes              \* number of readings pushed by the producer

ownVars == << latest_samples_mutex_, own_keep_running, own_queue, own_loop_pc,
              own_stop_pc, own_received, own_window, own_pushes >>

(***************************************************************************)
(* State of the scan loop with the read of a frame and the calls of the     *)
(* handlers as steps of their own, next to a thread inside stopScan()       *)
(***************************************************************************)
VARIABLES
    qui_keep_running,       \* BluetoothScanner::keep_running_
    qui_dd,                 \* BluetoothScanner::dd_
    qui_dev_open,           \* kernel: the controller descriptor is open
    qui_pipe_bytes,         \* kernel: bytes waiting in the pipe
    qui_scan_pc,            \* scan thread: position inside startScan()
    qui_fds,                \* scan thread: descriptors select() reported readable
    qui_left,               \* scan thread: reports of the frame read not yet dispatched
    qui_stop_pc,            \* stopping thread: position inside stopScan()
    qui_frames,             \* history: number of frames read
    qui_calls,              \* history: number of handle() calls
    qui_late_calls          \* history: handle() calls begun after stopScan() returned

quiVars == << qui_keep_running, qui_dd, qui_dev_open, qui_pipe_bytes, qui_scan_pc,
              qui_fds, qui_left, qui_stop_pc, qui_frames, qui_calls, qui_late_calls >>

\* the state of the parts that are checked on their own
restVars == << decVars, serVars, mainVars, repVars, winVars, ownVars, quiVars >>

vars == << aggVars, scanVars, mqVars, restVars >>

Keys == Macs \cup {""}

NoReading == [mac_address |-> "-"]

NoSnap == [active |-> FALSE, keys |-> {}, covered |-> {}, writes |-> 0,
           owed |-> [k \in Macs |-> 0]]

\* DataProcessor / RestApiConsumer constructors, MessageQueue default construction
AggInit ==
    /\ queue_ = << >>
    /\ keep_running_ = [a \in Aggs |-> TRUE]
    /\ joinable = [a \in Aggs |-> FALSE]
    /\ loop_pc = [a \in Aggs |-> "none"]
    /\ received_data = [a \in Aggs |-> DefaultSensorData]
    /\ latest_samples_in_window_ = [a \in Aggs |-> {}]
    /\ elapsed_in_window = [a \in Aggs |-> 0]
    /\ remaining_time = [a \in Aggs |-> 0]
    /\ sink = [a \in Aggs |-> NoBlob]
    /\ ctl_pc = "idle"
    /\ ctl_agg = "dp"
    /\ started = [a \in Aggs |-> FALSE]
    /\ pushed = 0
    /\ lastPushed = [k \in Macs |-> 0]
    /\ lastPopped = [a \in Aggs |-> [k \in Keys |-> NoReading]]
    /\ written = [k \in Macs |-> 0]
    /\ stopSnap = NoSnap
    /\ attempts = [a \in Aggs |-> 0]
    /\ last_ok = [a \in Aggs |-> TRUE]
    /\ last_check = [a \in Aggs |-> "none"]

(***************************************************************************)
(* MessageQueue                                                             *)
(***************************************************************************)
\* MessageQueue::push: append under the mutex, never blocks
push(q, d) == Append(q, d)

\* MessageQueue::pop(timeout): data_available && !queue_.empty()
popHasValue(q) == q # << >>

\* the producer (the device handler on the scan thread) pushes the next reading
ProducerPush ==
    /\ pushed < push_budget
    /\ \E mac \in Macs :
          /\ queue_' = push(queue_, MkSensorData(mac, pushed + 1))
          /\ lastPushed' = [lastPushed EXCEPT ![mac] = pushed + 1]
    /\ pushed' = pushed + 1
    /\ UNCHANGED << keep_running_, joinable, loop_pc, received_data,
                    latest_samples_in_window_, elapsed_in_window, remaining_time,
                    sink, ctl_pc, ctl_agg, started, lastPopped, written, stopSnap >>
    /\ UNCHANGED << push_budget, scanVars, mqVars, restVars, attempts, last_ok, sink_faulty,
                    last_check, track_checks >>

(***************************************************************************)
(* Time: steady_clock advances by one tick for every running loop thread.   *)
(***************************************************************************)
LoopRunning(a) == loop_pc[a] \in {"while", "pop", "got", "check"}

Tick ==
    /\ elapsed_in_window' =
          [a \in Aggs |-> IF LoopRunning(a)
                          THEN Min(elapsed_in_window[a] + 1, WindowTicks)
                          ELSE elapsed_in_window[a]]
    /\ remaining_time' =
          [a \in Aggs |-> IF loop_pc[a] = "pop"
                          THEN Max(remaining_time[a] - 1, 0)
                          ELSE remaining_time[a]]
    /\ UNCHANGED << queue_, keep_running_, joinable, loop_pc, received_data,
                    latest_samples_in_window_, sink, ctl_pc, ctl_agg, started,
                    pushed, lastPushed, lastPopped, written, stopSnap >>
    /\ UNCHANGED << push_budget, scanVars, mqVars, restVars, attempts, last_ok, sink_faulty,
                    last_check, track_checks >>

(***************************************************************************)
(* The sink                                                                 *)
(***************************************************************************)
\* main() hands every DataProcessor an initialized SQLiteDatabaseManager, and
\* the RestApiConsumer posts with its own curl handle
SinkAvailable(a) == TRUE

\* capture time of the entry of key k in mapping m, 0 when there is none
CaptureTime(m, k) ==
    LET ts == { e.value.timestamp : e \in { x \in m : x.key = k } }
    IN  IF ts = {} THEN 0 ELSE CHOOSE t \in ts : \A u \in ts : u <= t

\* what a sink write can report: success, and failure when the sink is faulty
SinkResults == IF sink_faulty THEN BOOLEAN ELSE {TRUE}

\* insertAggregatedSensorData(timestamp_str, serializeSensorDataMap(m)) / the POST:
\* one write call; the blob is stored when the call succeeds
WriteAggregate(a, m) ==
    \E ok \in SinkResults :
        /\ attempts' = [attempts EXCEPT ![a] = @ + 1]
        /\ last_ok' = [last_ok EXCEPT ![a] = ok]
        /\ sink' = IF ok THEN [sink EXCEPT ![a] = serializeSensorDataMap(m)] ELSE sink
        /\ written' = IF ok THEN [k \in Macs |-> Max(written[k], CaptureTime(m, k))]
                      ELSE written
        /\ stopSnap' = IF stopSnap.active /\ ctl_agg = a
                       THEN [stopSnap EXCEPT !.writes = @ + 1,
                                             !.covered = @ \cup (MapKeys(m) \cap stopSnap.keys)]
                       ELSE stopSnap

(***************************************************************************)
(* startConsuming()                                                         *)
(***************************************************************************)
\* main() calls startConsuming() once on each consumer
startConsuming(a) ==
    /\ ctl_pc = "idle"
    /\ ~started[a]
    /\ started' = [started EXCEPT ![a] = TRUE]
    /\ IF joinable[a]
       THEN UNCHANGED << joinable, loop_pc >>
       ELSE /\ joinable' = [joinable EXCEPT ![a] = TRUE]
            /\ loop_pc' = [loop_pc EXCEPT ![a] = "start"]
    /\ UNCHANGED << queue_, keep_running_, received_data,
                    latest_samples_in_window_, elapsed_in_window, remaining_time,
                    sink, ctl_pc, ctl_agg, pushed, lastPushed, lastPopped,
                    written, stopSnap >>
    /\ UNCHANGED << push_budget, scanVars, mqVars, restVars, attempts, last_ok, sink_faulty,
                    last_check, track_checks >>

(***************************************************************************)
(* processingLoop() / consumingLoop()                                       *)
(***************************************************************************)
\* window_start_time_ = steady_clock::now()
LoopStart(a) ==
    /\ loop_pc[a] = "start"
    /\ elapsed_in_window' = [elapsed_in_window EXCEPT ![a] = 0]
    /\ loop_pc' = [loop_pc EXCEPT ![a] = "while"]
    /\ UNCHANGED << queue_, keep_running_, joinable, received_data,
                    latest_samples_in_window_, remaining_time, sink, ctl_pc,
                    ctl_agg, started, pushed, lastPushed, lastPopped, written, stopSnap >>
    /\ UNCHANGED << push_budget, scanVars, mqVars, restVars, attempts, last_ok, sink_faulty,
                    last_check, track_checks >>

\* remaining_time = logging_window_duration_ - elapsed_in_window, at least 1
PopTimeout(elapsed) ==
    IF WindowTicks - elapsed <= 0 THEN 1 ELSE WindowTicks - elapsed

\* while (keep_running_.load()) and the computation of the pop timeout
LoopWhile(a) ==
    /\ loop_pc[a] = "while"
    /\ IF keep_running_[a]
       THEN /\ remaining_time' = [remaining_time EXCEPT ![a] = PopTimeout(elapsed_in_window[a])]
            /\ loop_pc' = [loop_pc EXCEPT ![a] = "pop"]
       ELSE /\ loop_pc' = [loop_pc EXCEPT ![a] = "exited"]
            /\ UNCHANGED remaining_time
    /\ UNCHANGED << queue_, keep_running_, joinable, received_data,
                    latest_samples_in_window_, elapsed_in_window, sink, ctl_pc,
                    ctl_agg, started, pushed, lastPushed, lastPopped, written, stopSnap >>
    /\ UNCHANGED << push_budget, scanVars, mqVars, restVars, attempts, last_ok, sink_faulty,
                    last_check, track_checks >>

\* queue_.pop() without a timeout: waits until an item is there
LoopPopBlocking(a) ==
    /\ loop_pc[a] = "pop"
    /\ popHasValue(queue_)
    /\ received_data' = [received_data EXCEPT ![a] = Head(queue_)]
    /\ queue_' = Tail(queue_)
    /\ loop_pc' = [loop_pc EXCEPT ![a] = "got"]
    /\ remaining_time' = [remaining_time EXCEPT ![a] = 0]
    /\ UNCHANGED << keep_running_, joinable, latest_samples_in_window_,
                    elapsed_in_window, sink, ctl_pc, ctl_agg, started, pushed,
                    lastPushed, lastPopped, written, stopSnap >>
    /\ UNCHANGED << push_budget, scanVars, mqVars, restVars, attempts, last_ok, sink_faulty,
                    last_check, track_checks >>

\* queue_.pop(remaining_time): the front item, or nullopt once the timeout elapsed
LoopPop(a) ==
    /\ loop_pc[a] = "pop"
    /\ IF popHasValue(queue_)
       THEN /\ received_data' = [received_data EXCEPT ![a] = Head(queue_)]
            /\ queue_' = Tail(queue_)
            /\ loop_pc' = [loop_pc EXCEPT ![a] = "got"]
       ELSE /\ remaining_time[a] = 0
            /\ loop_pc' = [loop_pc EXCEPT ![a] = "check"]
            /\ UNCHANGED << received_data, queue_ >>
    /\ remaining_time' = [remaining_time EXCEPT ![a] = 0]
    /\ UNCHANGED << keep_running_, joinable, latest_samples_in_window_,
                    elapsed_in_window, sink, ctl_pc, ctl_agg, started, pushed,
                    lastPushed, lastPopped, written, stopSnap >>
    /\ UNCHANGED << push_budget, scanVars, mqVars, restVars, attempts, last_ok, sink_faulty,
                    last_check, track_checks >>

\* a shutdown signal test that does not look at keep_running_
IsShutdownSignalAnyTime(keep, d) ==
    /\ d.mac_address = ""
    /\ d.predefined_name = ""
    /\ d.decoded_device_name = ""

\* the dummy shutdown signal test of the loop
IsShutdownSignal(keep, d) ==
    /\ ~keep
    /\ d.mac_address = ""
    /\ d.predefined_name = ""
    /\ d.decoded_device_name = ""

\* if (data_opt): break on the shutdown signal, otherwise upsert
LoopGot(a) ==
    /\ loop_pc[a] = "got"
    /\ IF IsShutdownSignal(keep_running_[a], received_data[a])
       THEN /\ loop_pc' = [loop_pc EXCEPT ![a] = "exited"]
            /\ UNCHANGED << latest_samples_in_window_, lastPopped >>
       ELSE /\ latest_samples_in_window_' =
                  [latest_samples_in_window_ EXCEPT
                      ![a] = MapAssign(@, received_data[a].mac_address, received_data[a])]
            /\ lastPopped' = [lastPopped EXCEPT
                                 ![a][received_data[a].mac_address] = received_data[a]]
            /\ loop_pc' = [loop_pc EXCEPT ![a] = "check"]
    /\ received_data' = [received_data EXCEPT ![a] = DefaultSensorData]
    /\ UNCHANGED << queue_, keep_running_, joinable, elapsed_in_window,
                    remaining_time, sink, ctl_pc, ctl_agg, started, pushed,
                    lastPushed, written, stopSnap >>
    /\ UNCHANGED << push_budget, scanVars, mqVars, restVars, attempts, last_ok, sink_faulty,
                    last_check, track_checks >>

\* a deadline test that fires one tick before the window is over
WindowExpiredEarly(elapsed) == elapsed + 1 >= WindowTicks

\* now - window_start_time_ >= logging_window_duration_
WindowExpired(elapsed) == elapsed >= WindowTicks

\* a window that is kept for another try when the write failed
WindowKeptOnFailure(m, ok) == IF ok THEN {} ELSE m

\* latest_samples_in_window_.clear() after the write call, whatever it reported
WindowAfterWrite(m, ok) == {}

\* the window expiration check at the end of one loop iteration
LoopCheck(a) ==
    /\ loop_pc[a] = "check"
    /\ IF WindowExpired(elapsed_in_window[a])
       THEN /\ IF ~MapEmpty(latest_samples_in_window_[a])
               THEN /\ IF SinkAvailable(a)
                       THEN WriteAggregate(a, latest_samples_in_window_[a])
                       ELSE UNCHANGED << sink, written, stopSnap, attempts, last_ok >>
                    /\ latest_samples_in_window_' =
                          [latest_samples_in_window_ EXCEPT ![a] =
                              WindowAfterWrite(latest_samples_in_window_[a], last_ok'[a])]
                    /\ lastPopped' = [lastPopped EXCEPT ![a] =
                          IF latest_samples_in_window_'[a] = {}
                          THEN [k \in Keys |-> NoReading] ELSE @]
                    /\ last_check' = IF track_checks THEN [last_check EXCEPT ![a] = "flushed"]
                                     ELSE last_check
               ELSE /\ UNCHANGED << sink, written, stopSnap, attempts, last_ok,
                                    latest_samples_in_window_, lastPopped >>
                    /\ last_check' = IF track_checks THEN [last_check EXCEPT ![a] = "empty"]
                                     ELSE last_check
            /\ elapsed_in_window' = [elapsed_in_window EXCEPT ![a] = 0]
       ELSE UNCHANGED << sink, written, stopSnap, attempts, last_ok,
                         latest_samples_in_window_, lastPopped, elapsed_in_window,
                         last_check >>
    /\ loop_pc' = [loop_pc EXCEPT ![a] = "while"]
    /\ UNCHANGED << queue_, keep_running_, joinable, received_data,
                    remaining_time, ctl_pc, ctl_agg, started, pushed, lastPushed >>
    /\ UNCHANGED << push_budget, scanVars, mqVars, restVars, sink_faulty, track_checks >>

(***************************************************************************)
(* stopConsuming()                                                          *)
(***************************************************************************)
\* stopConsuming() entered with no test of joinable()
StopCallUnguarded(a) ==
    /\ ctl_pc = "idle"
    /\ keep_running_' = [keep_running_ EXCEPT ![a] = FALSE]
    /\ ctl_pc' = "push"
    /\ ctl_agg' = a
    /\ stopSnap' = [active |-> TRUE, keys |-> MapKeys(latest_samples_in_window_[a]),
                    covered |-> {}, writes |-> 0, owed |-> lastPushed]
    /\ UNCHANGED << queue_, joinable, loop_pc, received_data,
                    latest_samples_in_window_, elapsed_in_window, remaining_time,
                    sink, started, pushed, lastPushed, lastPopped, written >>
    /\ UNCHANGED << push_budget, scanVars, mqVars, restVars, attempts, last_ok, sink_faulty,
                    last_check, track_checks >>

\* if (thread.joinable()) keep_running_.store(false); otherwise return
StopCall(a) ==
    /\ ctl_pc = "idle"
    /\ IF joinable[a]
       THEN /\ keep_running_' = [keep_running_ EXCEPT ![a] = FALSE]
            /\ ctl_pc' = "push"
            /\ ctl_agg' = a
            /\ stopSnap' = [active |-> TRUE,
                            keys |-> MapKeys(latest_samples_in_window_[a]),
                            covered |-> {}, writes |-> 0, owed |-> lastPushed]
       ELSE /\ ctl_pc' = "returned"
            /\ ctl_agg' = a
            /\ UNCHANGED << keep_running_, stopSnap >>
    /\ UNCHANGED << queue_, joinable, loop_pc, received_data,
                    latest_samples_in_window_, elapsed_in_window, remaining_time,
                    sink, started, pushed, lastPushed, lastPopped, written >>
    /\ UNCHANGED << push_budget, scanVars, mqVars, restVars, attempts, last_ok, sink_faulty,
                    last_check, track_checks >>

\* queue_.push(SensorData())
StopPush ==
    /\ ctl_pc = "push"
    /\ queue_' = push(queue_, DefaultSensorData)
    /\ ctl_pc' = "join"
    /\ UNCHANGED << keep_running_, joinable, loop_pc, received_data,
                    latest_samples_in_window_, elapsed_in_window, remaining_time,
                    sink, ctl_agg, started, pushed, lastPushed, lastPopped,
                    written, stopSnap >>
    /\ UNCHANGED << push_budget, scanVars, mqVars, restVars, attempts, last_ok, sink_faulty,
                    last_check, track_checks >>

\* thread.join(): returns once the loop thread has left its function
StopJoin ==
    /\ ctl_pc = "join"
    /\ loop_pc[ctl_agg] = "exited"
    /\ loop_pc' = [loop_pc EXCEPT ![ctl_agg] = "none"]
    /\ joinable' = [joinable EXCEPT ![ctl_agg] = FALSE]
    /\ ctl_pc' = "flush"
    /\ UNCHANGED << queue_, keep_running_, received_data,
                    latest_samples_in_window_, elapsed_in_window, remaining_time,
                    sink, ctl_agg, started, pushed, lastPushed, lastPopped,
                    written, stopSnap >>
    /\ UNCHANGED << push_budget, scanVars, mqVars, restVars, attempts, last_ok, sink_faulty,
                    last_check, track_checks >>

\* stopConsuming() that clears the residual window without writing it
StopFlushDiscards ==
    /\ ctl_pc = "flush"
    /\ latest_samples_in_window_' = [latest_samples_in_window_ EXCEPT ![ctl_agg] = {}]
    /\ lastPopped' = [lastPopped EXCEPT ![ctl_agg] = [k \in Keys |-> NoReading]]
    /\ ctl_pc' = "returned"
    /\ UNCHANGED << sink, written, stopSnap, attempts, last_ok >>
    /\ UNCHANGED << queue_, keep_running_, joinable, loop_pc, received_data,
                    elapsed_in_window, remaining_time, ctl_agg, started, pushed,
                    lastPushed >>
    /\ UNCHANGED << push_budget, scanVars, mqVars, restVars, sink_faulty, last_check,
                    track_checks >>

\* the flush of the residual window, then stopConsuming() returns
StopFlush ==
    /\ ctl_pc = "flush"
    /\ IF ~MapEmpty(latest_samples_in_window_[ctl_agg]) /\ SinkAvailable(ctl_agg)
       THEN /\ WriteAggregate(ctl_agg, latest_samples_in_window_[ctl_agg])
            /\ latest_samples_in_window_' =
                  [latest_samples_in_window_ EXCEPT ![ctl_agg] =
                      WindowAfterWrite(latest_samples_in_window_[ctl_agg], last_ok'[ctl_agg])]
            /\ lastPopped' = [lastPopped EXCEPT ![ctl_agg] =
                  IF latest_samples_in_window_'[ctl_agg] = {}
                  THEN [k \in Keys |-> NoReading] ELSE @]
       ELSE UNCHANGED << sink, written, stopSnap, attempts, last_ok, latest_samples_in_window_, lastPopped >>
    /\ ctl_pc' = "returned"
    /\ UNCHANGED << queue_, keep_running_, joinable, loop_pc, received_data,
                    elapsed_in_window, remaining_time, ctl_agg, started, pushed,
                    lastPushed >>
    /\ UNCHANGED << push_budget, scanVars, mqVars, restVars, sink_faulty, last_check,
                    track_checks >>

\* the caller of stopConsuming() goes on
StopReturn ==
    /\ ctl_pc = "returned"
    /\ ctl_pc' = "idle"
    /\ ctl_agg' = "dp"
    /\ stopSnap' = NoSnap
    /\ UNCHANGED << queue_, keep_running_, joinable, loop_pc, received_data,
                    latest_samples_in_window_, elapsed_in_window, remaining_time,
                    sink, started, pushed, lastPushed, lastPopped, written >>
    /\ UNCHANGED << push_budget, scanVars, mqVars, restVars, attempts, last_ok, sink_faulty,
                    last_check, track_checks >>

(***************************************************************************)
(* BluetoothScanner: construction, registerHandler(), init()                *)
(***************************************************************************)
\* the descriptors the kernel hands out
Fd(what) == CASE what = "hci" -> 3 [] what = "pipe_read" -> 4 [] what = "pipe_write" -> 5

\* device names as character sequences
NameTP357 == << "T", "P", "3", "5", "7" >>

NameITag == << "i", "T", "A", "G" >>

NameInputs ==
    { << >>,
      NameTP357,
      NameITag \o NameTP357,
      << "T", "P", "3", "5" >>,
      NameITag }

\* std::string::find(pat) != npos
Contains(s, pat) ==
    \E i \in 0..(Len(s) - Len(pat)) : SubSeq(s, i + 1, i + Len(pat)) = pat

\* TP357Handler::canHandle
TP357CanHandle(name) == Contains(name, NameTP357)

\* ITagHandler::canHandle
ITagCanHandle(name) == Contains(name, NameITag)

\* handler->canHandle(device_name), by the dynamic type of the handler
canHandle(h, name) ==
    IF h.kind = "TP357Handler" THEN TP357CanHandle(name) ELSE ITagCanHandle(name)

\* the handlers main() may register; "null" is an empty unique_ptr
HandlerInputs == { [kind |-> "TP357Handler"], [kind |-> "ITagHandler"], [kind |-> "null"] }

\* no frame has been read yet
NoHeader ==
    [len |-> 0, packet_type |-> "-", event_len |-> 0, event_code |-> "-", subevent |-> "-"]

\* BluetoothScanner::BluetoothScanner()
ScanInit ==
    /\ dd_ = -1
    /\ pipefd_ = << -1, -1 >>
    /\ scan_keep_running_ = TRUE
    /\ device_handlers_ = << >>
    /\ dev_open = FALSE
    /\ scan_enabled = FALSE
    /\ pipe_open = FALSE
    /\ pipe_bytes = 0
    /\ init_called = FALSE
    /\ scan_pc = "none"
    /\ sel_dd = -1
    /\ sel_ready = {}
    /\ stop_pc = "idle"
    /\ in_dtor = FALSE
    /\ destroyed = FALSE
    /\ scanStops = 0
    /\ closes = 0
    /\ disables = 0
    /\ bad_fd_op = FALSE
    /\ frames = 0
    /\ last_frame = << >>
    /\ invoked = << >>
    /\ last_hdr = NoHeader
    /\ frame_outcome = "none"
    /\ init_result = "none"
    /\ last_error = "none"

\* BluetoothScanner::registerHandler, called by main() before init()
registerHandler(h) ==
    /\ ~init_called /\ ~destroyed /\ stop_pc = "idle"
    /\ Len(device_handlers_) < MaxHandlers
    /\ h.kind # "null"
    /\ device_handlers_' = Append(device_handlers_, h)
    /\ UNCHANGED << dd_, pipefd_, scan_keep_running_, dev_open, scan_enabled,
                    pipe_open, pipe_bytes, init_called, scan_pc, sel_dd,
                    sel_ready, stop_pc, in_dtor, destroyed, scanStops, closes,
                    disables, bad_fd_op, frames, last_frame, invoked >>
    /\ UNCHANGED << aggVars, mqVars, restVars, last_hdr, frame_outcome, frame_budget, init_result,
                    track_errors, last_error >>

\* the steps of init() that can fail, in order
InitSteps == << "pipe", "fcntl", "route", "open", "params", "enable", "filter" >>

\* position of a step in init(); past the last step when nothing fails
RECURSIVE StepIndex(_, _)
StepIndex(step, i) ==
    IF i > Len(InitSteps) \/ InitSteps[i] = step THEN i ELSE StepIndex(step, i + 1)

\* the failure branches of init() that close both pipe ends and set them to -1
ClosesPipeOnFailure(step) ==
    step \in {"fcntl", "route", "open", "params", "enable", "filter"}

\* failure branches that close the controller, with the event-filter branch left out
ClosesDevOnFailureButFilter(step) ==
    step \in {"params", "enable"}

\* the failure branches of init() that run hci_close_dev(dd_); dd_ = -1
ClosesDevOnFailure(step) ==
    step \in {"params", "enable", "filter"}

\* BluetoothScanner::init(): fail names the step that fails, "none" for success
init(fail) ==
    /\ ~init_called /\ ~destroyed /\ stop_pc = "idle" /\ scan_pc = "none"
    /\ init_called' = TRUE
    /\ LET k == StepIndex(fail, 1)
           pipe_made == k > StepIndex("pipe", 1)
           dev_opened == k > StepIndex("open", 1)
           scan_on == k > StepIndex("enable", 1)
           pipe_kept == pipe_made /\ ~ClosesPipeOnFailure(fail)
           dev_kept == dev_opened /\ ~ClosesDevOnFailure(fail)
       IN  /\ pipefd_' = IF pipe_kept THEN << Fd("pipe_read"), Fd("pipe_write") >>
                         ELSE << -1, -1 >>
           /\ pipe_open' = pipe_kept
           /\ dd_' = IF dev_kept THEN Fd("hci") ELSE -1
           /\ dev_open' = dev_kept
           /\ scan_enabled' = scan_on
    /\ init_result' = IF fail = "none" THEN "true" ELSE "false"
    /\ UNCHANGED << scan_keep_running_, device_handlers_, pipe_bytes, scan_pc,
                    sel_dd, sel_ready, stop_pc, in_dtor, destroyed, scanStops,
                    closes, disables, bad_fd_op, frames, last_frame, invoked >>
    /\ UNCHANGED << aggVars, mqVars, restVars, last_hdr, frame_outcome, frame_budget,
                    track_errors, last_error >>

(***************************************************************************)
(* BluetoothScanner::startScan(), run by the scan thread                    *)
(***************************************************************************)
InLoop(pc) == pc \in {"while", "fdset", "select", "woken", "read"}

\* entry of startScan(): the two initialisation tests
StartScan ==
    /\ scan_pc = "none" /\ ~destroyed /\ ~in_dtor
    /\ scan_pc' = IF dd_ < 0 \/ pipefd_[1] = -1 \/ pipefd_[2] = -1
                  THEN "returned" ELSE "while"
    /\ UNCHANGED << dd_, pipefd_, scan_keep_running_, device_handlers_,
                    dev_open, scan_enabled, pipe_open, pipe_bytes, init_called,
                    sel_dd, sel_ready, stop_pc, in_dtor, destroyed, scanStops,
                    closes, disables, bad_fd_op, frames, last_frame, invoked >>
    /\ UNCHANGED << aggVars, mqVars, restVars, last_hdr, frame_outcome, frame_budget, init_result,
                    track_errors, last_error >>

\* while (keep_running_.load()) { if (dd_ < 0) break;
ScanWhile ==
    /\ scan_pc = "while"
    /\ scan_pc' = IF scan_keep_running_ /\ dd_ >= 0 THEN "fdset" ELSE "exited"
    /\ UNCHANGED << dd_, pipefd_, scan_keep_running_, device_handlers_,
                    dev_open, scan_enabled, pipe_open, pipe_bytes, init_called,
                    sel_dd, sel_ready, stop_pc, in_dtor, destroyed, scanStops,
                    closes, disables, bad_fd_op, frames, last_frame, invoked >>
    /\ UNCHANGED << aggVars, mqVars, restVars, last_hdr, frame_outcome, frame_budget, init_result,
                    track_errors, last_error >>

\* FD_ZERO(&fds); FD_SET(dd_, &fds); FD_SET(pipefd_[0], &fds): dd_ is read once more
ScanFdSet ==
    /\ scan_pc = "fdset"
    /\ sel_dd' = dd_
    /\ sel_ready' = {}
    /\ scan_pc' = "select"
    /\ UNCHANGED << dd_, pipefd_, scan_keep_running_, device_handlers_,
                    dev_open, scan_enabled, pipe_open, pipe_bytes, init_called,
                    stop_pc, in_dtor, destroyed, scanStops, closes,
                    disables, bad_fd_op, frames, last_frame, invoked >>
    /\ UNCHANGED << aggVars, mqVars, restVars, last_hdr, frame_outcome, frame_budget, init_result,
                    track_errors, last_error >>

\* select() called with no timeout never returns 0
SelectNoTimeout ==
    /\ scan_pc = "select"
    /\ FALSE
    /\ UNCHANGED vars

\* select() returns 0: the 100 ms timeout elapsed
SelectTimeout ==
    /\ scan_pc = "select"
    /\ scan_pc' = "while"
    /\ sel_dd' = -1
    /\ UNCHANGED << dd_, pipefd_, scan_keep_running_, device_handlers_,
                    dev_open, scan_enabled, pipe_open, pipe_bytes, init_called,
                    sel_ready, stop_pc, in_dtor, destroyed, scanStops, closes,
                    disables, bad_fd_op, frames, last_frame, invoked >>
    /\ UNCHANGED << aggVars, mqVars, restVars, last_hdr, frame_outcome, frame_budget, init_result,
                    track_errors, last_error >>

\* a select() whose every failure leaves the loop
AfterSelectErrorAllFatal(err) == "exited"

\* if (errno == EINTR) continue; if (errno == EBADF) break; perror; break
AfterSelectError(err) == IF err = "EINTR" THEN "while" ELSE "exited"

\* select() fails: EINTR continues, EBADF and any other error leave the loop
SelectError(err) ==
    /\ scan_pc = "select"
    /\ err = "EBADF" => (sel_dd = -1 \/ ~dev_open)
    /\ scan_pc' = AfterSelectError(err)
    /\ sel_dd' = -1
    /\ last_error' = IF track_errors THEN err ELSE last_error
    /\ UNCHANGED << dd_, pipefd_, scan_keep_running_, device_handlers_,
                    dev_open, scan_enabled, pipe_open, pipe_bytes, init_called,
                    sel_ready, stop_pc, in_dtor, destroyed, scanStops, closes,
                    disables, bad_fd_op, frames, last_frame, invoked >>
    /\ UNCHANGED << aggVars, mqVars, restVars, last_hdr, frame_outcome, frame_budget,
                    init_result, track_errors >>

\* a frame is waiting on the controller socket
FrameWaiting == frames < frame_budget /\ sel_dd >= 0 /\ dev_open /\ scan_enabled

\* select() returns > 0 with the readable descriptors set in fds
SelectReady ==
    /\ scan_pc = "select"
    /\ \E ready \in SUBSET {"pipe", "dev"} :
          /\ ready # {}
          /\ "pipe" \in ready => pipe_bytes > 0
          /\ "dev" \in ready => FrameWaiting
          /\ pipe_bytes > 0 => "pipe" \in ready
          /\ sel_ready' = ready
    /\ scan_pc' = "woken"
    /\ UNCHANGED << dd_, pipefd_, scan_keep_running_, device_handlers_,
                    dev_open, scan_enabled, pipe_open, pipe_bytes, init_called,
                    sel_dd, stop_pc, in_dtor, destroyed, scanStops, closes,
                    disables, bad_fd_op, frames, last_frame, invoked >>
    /\ UNCHANGED << aggVars, mqVars, restVars, last_hdr, frame_outcome, frame_budget, init_result,
                    track_errors, last_error >>

\* a wake-up that looks at the controller socket before the cancellation pipe
ScanWokenDataFirst ==
    /\ scan_pc = "woken"
    /\ IF "dev" \in sel_ready
       THEN /\ scan_pc' = "read"
            /\ UNCHANGED << pipe_bytes, sel_dd >>
       ELSE IF "pipe" \in sel_ready
       THEN /\ pipe_bytes' = 0
            /\ scan_pc' = "exited"
            /\ sel_dd' = -1
       ELSE /\ scan_pc' = "while"
            /\ UNCHANGED << pipe_bytes, sel_dd >>
    /\ UNCHANGED << dd_, pipefd_, scan_keep_running_, device_handlers_,
                    dev_open, scan_enabled, pipe_open, init_called, stop_pc,
                    in_dtor, destroyed, scanStops, closes, disables, bad_fd_op,
                    frames, last_frame, invoked, sel_ready >>
    /\ UNCHANGED << aggVars, mqVars, restVars, last_hdr, frame_outcome, frame_budget, init_result,
                    track_errors, last_error >>

\* if (FD_ISSET(pipefd_[0])) drain and break; else if (FD_ISSET(dd_)) read
ScanWoken ==
    /\ scan_pc = "woken"
    /\ IF "pipe" \in sel_ready
       THEN /\ pipe_bytes' = 0
            /\ scan_pc' = "exited"
            /\ sel_dd' = -1
       ELSE /\ scan_pc' = IF "dev" \in sel_ready THEN "read" ELSE "while"
            /\ UNCHANGED << pipe_bytes, sel_dd >>
    /\ UNCHANGED << dd_, pipefd_, scan_keep_running_, device_handlers_,
                    dev_open, scan_enabled, pipe_open, init_called, stop_pc,
                    in_dtor, destroyed, scanStops, closes, disables, bad_fd_op,
                    frames, last_frame, invoked, sel_ready >>
    /\ UNCHANGED << aggVars, mqVars, restVars, last_hdr, frame_outcome, frame_budget, init_result,
                    track_errors, last_error >>

\* the handler loop without its break: every matching handler runs
RECURSIVE DispatchNoBreak(_, _, _)
DispatchNoBreak(handlers, name, i) ==
    IF i > Len(handlers) THEN << >>
    ELSE IF canHandle(handlers[i], name)
         THEN << i >> \o DispatchNoBreak(handlers, name, i + 1)
    ELSE DispatchNoBreak(handlers, name, i + 1)

\* the handlers whose handle() runs for one report: first match, then break
RECURSIVE DispatchFrom(_, _, _)
DispatchFrom(handlers, name, i) ==
    IF i > Len(handlers) THEN << >>
    ELSE IF canHandle(handlers[i], name) THEN << i >>
    ELSE DispatchFrom(handlers, name, i + 1)

\* the frames that arrive: one or two advertising reports, each with a name
FrameInputs ==
    { << n >> : n \in NameInputs } \cup { << n, m >> : n \in NameInputs, m \in NameInputs }

\* size of the HCI event header: event code and parameter length
HCI_EVENT_HDR_SIZE == 2

\* bytes of the advertising data of a report that carries the name: one TLV record
AdLength(name) == IF Len(name) = 0 THEN 0 ELSE Len(name) + 2

\* bytes of an LE meta event with these reports: subevent, report count, and
\* per report the le_advertising_info header, its data and the RSSI byte
RECURSIVE PayloadLen(_)
PayloadLen(reports) ==
    IF Len(reports) = 0 THEN 2
    ELSE 9 + AdLength(Head(reports)) + 1 + PayloadLen(Tail(reports))

\* a frame as read(dd_) leaves it in buf: len bytes read, and the header fields
\* and reports the loop finds in buf
HciFrame(len, ptype, elen, code, sub, reports) ==
    [len |-> len, packet_type |-> ptype, event_len |-> elen, event_code |-> code,
     subevent |-> sub, reports |-> reports]

\* an advertising-report event as the controller sends it
WellFormedFrame(reports) ==
    HciFrame(1 + HCI_EVENT_HDR_SIZE + PayloadLen(reports), "HCI_EVENT_PKT",
             PayloadLen(reports), "EVT_LE_META", "EVT_LE_ADVERTISING_REPORT", reports)

\* the frames read: every well-formed report frame, and one report frame with
\* every combination of short reads, other packet types, other declared
\* lengths, other events and other subevents
HciFrameInputs ==
    { WellFormedFrame(r) : r \in FrameInputs } \cup
    LET r == << NameTP357 >>
        P == PayloadLen(r)
    IN  { HciFrame(len, ptype, elen, code, sub, r) :
            len \in {0, 2, 3, 3 + P, 4 + P},
            ptype \in {"HCI_EVENT_PKT", "HCI_ACLDATA_PKT"},
            elen \in {0, P, P + 1},
            code \in {"EVT_LE_META", "EVT_CMD_COMPLETE"},
            sub \in {"EVT_LE_ADVERTISING_REPORT", "EVT_LE_CONN_COMPLETE"} }

\* the three tests a frame passes before its event code is looked at, without
\* the comparison of the declared length with the bytes read
FrameValidNoLengthTest(f) ==
    /\ f.len >= 1 + HCI_EVENT_HDR_SIZE
    /\ f.packet_type = "HCI_EVENT_PKT"

\* the three tests a frame passes before its event code is looked at
FrameValid(f) ==
    /\ f.len >= 1 + HCI_EVENT_HDR_SIZE
    /\ f.packet_type = "HCI_EVENT_PKT"
    /\ f.len = 1 + HCI_EVENT_HDR_SIZE + f.event_len

\* what the loop does with a frame
FrameOutcome(f) ==
    IF ~FrameValid(f) THEN "discarded"
    ELSE IF f.event_code = "EVT_LE_META" /\ f.subevent = "EVT_LE_ADVERTISING_REPORT"
         THEN "dispatched"
    ELSE "ignored"

\* the report loop that leaves at the first report no handler accepts
DispatchReportsStopAtUnhandled(handlers, reports) ==
    LET unhandled == { r \in 1..Len(reports) : DispatchFrom(handlers, reports[r], 1) = << >> }
        n == IF unhandled = {} THEN Len(reports)
             ELSE CHOOSE r \in unhandled : \A q \in unhandled : r <= q
    IN  [r \in 1..n |-> DispatchFrom(handlers, reports[r], 1)]

\* for (i = 0; i < reports_count; i++): the handlers run for each report in turn
DispatchReports(handlers, reports) ==
    [r \in 1..Len(reports) |-> DispatchFrom(handlers, reports[r], 1)]

\* read(dd_) returns a frame: validate it, and dispatch every report of an
\* advertising-report event
ScanReadFrame ==
    /\ scan_pc = "read"
    /\ dd_ >= 0 /\ dev_open
    /\ \E f \in HciFrameInputs :
          /\ last_hdr' = [k \in DOMAIN NoHeader |-> f[k]]
          /\ last_frame' = f.reports
          /\ frame_outcome' = FrameOutcome(f)
          /\ invoked' = IF FrameOutcome(f) = "dispatched"
                        THEN DispatchReports(device_handlers_, f.reports)
                        ELSE << >>
    /\ frames' = frames + 1
    /\ scan_pc' = "while"
    /\ sel_dd' = -1
    /\ UNCHANGED << dd_, pipefd_, scan_keep_running_, device_handlers_,
                    dev_open, scan_enabled, pipe_open, pipe_bytes, init_called,
                    sel_ready, stop_pc, in_dtor, destroyed, scanStops, closes,
                    disables, bad_fd_op, frame_budget, init_result,
                    track_errors, last_error >>
    /\ UNCHANGED << aggVars, mqVars, restVars >>

\* a read() whose every failure leaves the loop
AfterReadErrorAllFatal(err) == "exited"

\* if (errno == EAGAIN || errno == EINTR) continue; if (errno == EBADF) break;
\* perror; break
AfterReadError(err) == IF err \in {"EAGAIN", "EINTR"} THEN "while" ELSE "exited"

\* read(dd_) fails: EAGAIN and EINTR continue, EBADF and others leave the loop
ScanReadError(err) ==
    /\ scan_pc = "read"
    /\ err = "EBADF" => (dd_ < 0 \/ ~dev_open)
    /\ err # "EBADF" => (dd_ >= 0 /\ dev_open)
    /\ scan_pc' = AfterReadError(err)
    /\ sel_dd' = -1
    /\ last_error' = IF track_errors THEN err ELSE last_error
    /\ UNCHANGED << dd_, pipefd_, scan_keep_running_, device_handlers_,
                    dev_open, scan_enabled, pipe_open, pipe_bytes, init_called,
                    sel_ready, stop_pc, in_dtor, destroyed, scanStops, closes,
                    disables, bad_fd_op, frames, last_frame, invoked >>
    /\ UNCHANGED << aggVars, mqVars, restVars, last_hdr, frame_outcome, frame_budget,
                    init_result, track_errors >>

(***************************************************************************)
(* BluetoothScanner::stopScan() and the destructor                          *)
(***************************************************************************)
\* keep_running_.store(false)
StopScanCall(dtor) ==
    /\ stop_pc = "idle" /\ ~destroyed
    /\ IF dtor
       THEN scan_pc \in {"none", "returned", "exited"} /\ UNCHANGED scanStops
       ELSE scanStops < MaxScanStops /\ scanStops' = scanStops + 1
    /\ in_dtor' = dtor
    /\ scan_keep_running_' = FALSE
    /\ stop_pc' = "signal"
    /\ UNCHANGED << dd_, pipefd_, device_handlers_, dev_open, scan_enabled,
                    pipe_open, pipe_bytes, init_called, scan_pc, sel_dd,
                    sel_ready, destroyed, closes, disables, bad_fd_op, frames,
                    last_frame, invoked >>
    /\ UNCHANGED << aggVars, mqVars, restVars, last_hdr, frame_outcome, frame_budget, init_result,
                    track_errors, last_error >>

\* a write() or close() on a descriptor that is -1
BadFd(fd) == fd < 0

\* if (pipefd_[1] != -1) write(pipefd_[1], "x", 1): ok tells whether it succeeds
StopScanSignal(ok) ==
    /\ stop_pc = "signal"
    /\ IF pipefd_[2] # -1
       THEN /\ pipe_bytes' = IF ok /\ pipe_open THEN pipe_bytes + 1 ELSE pipe_bytes
            /\ bad_fd_op' = (bad_fd_op \/ BadFd(pipefd_[2]))
       ELSE /\ ok
            /\ UNCHANGED << pipe_bytes, bad_fd_op >>
    /\ stop_pc' = "cleanup"
    /\ UNCHANGED << dd_, pipefd_, scan_keep_running_, device_handlers_,
                    dev_open, scan_enabled, pipe_open, init_called, scan_pc,
                    sel_dd, sel_ready, in_dtor, destroyed, scanStops, closes,
                    disables, frames, last_frame, invoked >>
    /\ UNCHANGED << aggVars, mqVars, restVars, last_hdr, frame_outcome, frame_budget, init_result,
                    track_errors, last_error >>

\* the cleanup of stopScan() with the descriptor left marked open afterwards
StopScanCleanupKeepsFd ==
    /\ stop_pc = "cleanup"
    /\ IF dd_ >= 0
       THEN /\ disables' = disables + 1
            /\ scan_enabled' = FALSE
            /\ closes' = closes + 1
            /\ bad_fd_op' = (bad_fd_op \/ BadFd(dd_) \/ ~dev_open)
            /\ dev_open' = FALSE
            /\ dd_' = dd_
       ELSE UNCHANGED << disables, scan_enabled, closes, dev_open, dd_, bad_fd_op >>
    /\ stop_pc' = IF in_dtor THEN "dtor" ELSE "idle"
    /\ UNCHANGED << pipefd_, scan_keep_running_, device_handlers_, pipe_open,
                    pipe_bytes, init_called, scan_pc, sel_dd, sel_ready,
                    in_dtor, destroyed, scanStops, frames, last_frame,
                    invoked >>
    /\ UNCHANGED << aggVars, mqVars, restVars, last_hdr, frame_outcome, frame_budget, init_result,
                    track_errors, last_error >>

\* if (dd_ >= 0) { hci_le_set_scan_enable(dd_, 0, ...); hci_close_dev(dd_); dd_ = -1; }
StopScanCleanup ==
    /\ stop_pc = "cleanup"
    /\ IF dd_ >= 0
       THEN /\ disables' = disables + 1
            /\ scan_enabled' = FALSE
            /\ closes' = closes + 1
            /\ bad_fd_op' = (bad_fd_op \/ BadFd(dd_) \/ ~dev_open)
            /\ dev_open' = FALSE
            /\ dd_' = -1
       ELSE UNCHANGED << disables, scan_enabled, closes, dev_open, dd_, bad_fd_op >>
    /\ stop_pc' = IF in_dtor THEN "dtor" ELSE "idle"
    /\ UNCHANGED << pipefd_, scan_keep_running_, device_handlers_, pipe_open,
                    pipe_bytes, init_called, scan_pc, sel_dd, sel_ready,
                    in_dtor, destroyed, scanStops, frames, last_frame,
                    invoked >>
    /\ UNCHANGED << aggVars, mqVars, restVars, last_hdr, frame_outcome, frame_budget, init_result,
                    track_errors, last_error >>

\* ~BluetoothScanner() after stopScan(): close the pipe ends that are not -1
DtorClosePipes ==
    /\ stop_pc = "dtor"
    /\ IF pipefd_[1] # -1 \/ pipefd_[2] # -1
       THEN /\ pipe_open' = FALSE
            /\ pipe_bytes' = 0
            /\ bad_fd_op' = (bad_fd_op \/ (pipefd_[1] # -1 /\ BadFd(pipefd_[1]))
                                       \/ (pipefd_[2] # -1 /\ BadFd(pipefd_[2])))
       ELSE UNCHANGED << pipe_open, pipe_bytes, bad_fd_op >>
    /\ destroyed' = TRUE
    /\ stop_pc' = "idle"
    /\ UNCHANGED << dd_, pipefd_, scan_keep_running_, device_handlers_,
                    dev_open, scan_enabled, init_called, scan_pc, sel_dd,
                    sel_ready, in_dtor, scanStops, closes, disables, frames,
                    last_frame, invoked >>
    /\ UNCHANGED << aggVars, mqVars, restVars, last_hdr, frame_outcome, frame_budget, init_result,
                    track_errors, last_error >>

(***************************************************************************)
(* The scanner                                                              *)
(***************************************************************************)
ScanNext ==
    \/ \E h \in HandlerInputs : registerHandler(h)
    \/ \E fail \in {"none"} \cup { InitSteps[i] : i \in 1..Len(InitSteps) } : init(fail)
    \/ StartScan
    \/ ScanWhile
    \/ ScanFdSet
    \/ SelectTimeout
    \/ \E err \in {"EINTR", "EBADF", "EINVAL"} : SelectError(err)
    \/ SelectReady
    \/ ScanWoken
    \/ ScanReadFrame
    \/ \E err \in {"EAGAIN", "EINTR", "EBADF", "EIO"} : ScanReadError(err)
    \/ \E dtor \in BOOLEAN : StopScanCall(dtor)
    \/ \E ok \in BOOLEAN : StopScanSignal(ok)
    \/ StopScanCleanup
    \/ DtorClosePipes

(***************************************************************************)
(* MessageQueue: one producer and the consumer threads, with the mutex and  *)
(* the condition variable of push(), pop() and pop(timeout)                 *)
(***************************************************************************)
\* the threads that call pop() or pop(timeout)
Consumers == {"c1", "c2"}

\* MessageQueue::MessageQueue(): empty queue, free mutex, nobody waiting
MqInit ==
    /\ mq_queue = << >>
    /\ mq_mutex = "free"
    /\ mq_pc = [c \in Consumers |-> "idle"]
    /\ mq_mode = [c \in Consumers |-> "pop"]
    /\ mq_wake = [c \in Consumers |-> "none"]
    /\ mq_ret = [c \in Consumers |-> << >>]
    /\ mq_prod = "idle"
    /\ mq_pushed = 0

\* the consumers blocked inside cv_.wait / cv_.wait_for
Waiters == { c \in Consumers : mq_pc[c] = "waiting" }

\* push: std::lock_guard<std::mutex> lock(mutex_)
MqPushLock ==
    /\ mq_prod = "idle"
    /\ mq_pushed < MaxItems
    /\ mq_mutex = "free"
    /\ mq_mutex' = "producer"
    /\ mq_prod' = "locked"
    /\ UNCHANGED << mq_queue, mq_pc, mq_mode, mq_wake, mq_ret, mq_pushed >>
    /\ UNCHANGED << aggVars, scanVars, restVars >>

\* a push() that forgets cv_.notify_one(): nobody is woken
NotifyNobody(waiters) == { {} }

\* cv_.notify_one(): one of the waiting threads is woken, if there is any
NotifyOne(waiters) ==
    IF waiters = {} THEN { {} } ELSE { {w} : w \in waiters }

\* push: queue_.push(data); cv_.notify_one(); the lock is released on return
MqPush ==
    /\ mq_prod = "locked"
    /\ mq_queue' = Append(mq_queue, mq_pushed + 1)
    /\ mq_pushed' = mq_pushed + 1
    /\ \E woken \in NotifyOne(Waiters) :
          /\ mq_pc' = [c \in Consumers |-> IF c \in woken THEN "lock" ELSE mq_pc[c]]
          /\ mq_wake' = [c \in Consumers |-> IF c \in woken THEN "notify" ELSE mq_wake[c]]
    /\ mq_mutex' = "free"
    /\ mq_prod' = "idle"
    /\ UNCHANGED << mq_mode, mq_ret >>
    /\ UNCHANGED << aggVars, scanVars, restVars >>

\* a consumer calls pop() (mode "pop") or pop(timeout) (mode "timed")
MqPopCall(c, mode) ==
    /\ mq_pc[c] = "idle"
    /\ Len(mq_ret[c]) < MaxPops
    /\ mq_pc' = [mq_pc EXCEPT ![c] = "lock"]
    /\ mq_mode' = [mq_mode EXCEPT ![c] = mode]
    /\ mq_wake' = [mq_wake EXCEPT ![c] = "none"]
    /\ UNCHANGED << mq_queue, mq_mutex, mq_ret, mq_prod, mq_pushed >>
    /\ UNCHANGED << aggVars, scanVars, restVars >>

\* std::unique_lock<std::mutex> lock(mutex_), also when a wait re-acquires it
MqLock(c) ==
    /\ mq_pc[c] = "lock"
    /\ mq_mutex = "free"
    /\ mq_mutex' = c
    /\ mq_pc' = [mq_pc EXCEPT ![c] = "test"]
    /\ UNCHANGED << mq_queue, mq_mode, mq_wake, mq_ret, mq_prod, mq_pushed >>
    /\ UNCHANGED << aggVars, scanVars, restVars >>

\* pop() whose wait has no predicate: any wake-up ends the wait
PopDecisionNoPredicate(q, wake) ==
    LET wait_returns == q # << >> \/ wake # "none"
    IN  IF ~wait_returns THEN "wait"
        ELSE IF q = << >> THEN "nullopt"
        ELSE "item"

\* pop(): cv_.wait(lock, pred) returns once the queue is not empty, then the
\* empty test and the removal of the front
PopDecision(q, wake) ==
    LET wait_returns == q # << >>
    IN  IF ~wait_returns THEN "wait"
        ELSE IF q = << >> THEN "nullopt"
        ELSE "item"

\* pop(timeout) that takes a timeout as 'no data' without looking at the queue
TimedPopDecisionNoRecheck(q, wake) ==
    IF wake = "timeout" THEN "nullopt"
    ELSE IF q # << >> THEN "item"
    ELSE "wait"

\* pop(timeout): cv_.wait_for(lock, timeout, pred) returns pred() when the
\* timeout has elapsed, and true as soon as the queue is not empty
TimedPopDecision(q, wake) ==
    LET data_available == q # << >>
    IN  IF ~data_available /\ wake # "timeout" THEN "wait"
        ELSE IF data_available /\ q # << >> THEN "item"
        ELSE "nullopt"

\* a pop that returns the front item and leaves it in the queue
TakeFrontKeeps(q) == [item |-> Head(q), rest |-> q]

\* removal from the wrong end of the queue
TakeBack(q) == [item |-> q[Len(q)], rest |-> SubSeq(q, 1, Len(q) - 1)]

\* queue_.front(); queue_.pop()
TakeFront(q) == [item |-> Head(q), rest |-> Tail(q)]

\* with the lock held: test the predicate, then wait (releasing the lock),
\* return the front item, or return no value
MqTest(c) ==
    /\ mq_pc[c] = "test"
    /\ mq_mutex = c
    /\ LET d == IF mq_mode[c] = "pop" THEN PopDecision(mq_queue, mq_wake[c])
                ELSE TimedPopDecision(mq_queue, mq_wake[c])
       IN  CASE d = "wait" ->
                  /\ mq_pc' = [mq_pc EXCEPT ![c] = "waiting"]
                  /\ UNCHANGED << mq_queue, mq_ret >>
             [] d = "item" ->
                  /\ mq_queue' = TakeFront(mq_queue).rest
                  /\ mq_ret' = [mq_ret EXCEPT ![c] = Append(@, TakeFront(mq_queue).item)]
                  /\ mq_pc' = [mq_pc EXCEPT ![c] = "idle"]
             [] d = "nullopt" ->
                  /\ mq_ret' = [mq_ret EXCEPT ![c] = Append(@, 0)]
                  /\ mq_pc' = [mq_pc EXCEPT ![c] = "idle"]
                  /\ UNCHANGED mq_queue
    /\ mq_mutex' = "free"
    /\ UNCHANGED << mq_mode, mq_wake, mq_prod, mq_pushed >>
    /\ UNCHANGED << aggVars, scanVars, restVars >>

\* a waiting thread wakes without a notification, or its timeout elapses
MqWake(c, why) ==
    /\ mq_pc[c] = "waiting"
    /\ why = "timeout" => mq_mode[c] = "timed"
    /\ mq_pc' = [mq_pc EXCEPT ![c] = "lock"]
    /\ mq_wake' = [mq_wake EXCEPT ![c] = why]
    /\ UNCHANGED << mq_queue, mq_mutex, mq_mode, mq_ret, mq_prod, mq_pushed >>
    /\ UNCHANGED << aggVars, scanVars, restVars >>

MqNext ==
    \/ MqPushLock
    \/ MqPush
    \/ \E c \in Consumers, mode \in {"pop", "timed"} : MqPopCall(c, mode)
    \/ \E c \in Consumers : MqLock(c)
    \/ \E c \in Consumers : MqTest(c)
    \/ \E c \in Consumers, why \in {"spurious", "timeout"} : MqWake(c, why)

(***************************************************************************)
(* The advertising data decoders: parse_advertising_data_general and        *)
(* TP357Handler::parse_advertising_data_tp357                               *)
(***************************************************************************)
AD_TYPE_SHORT_LOCAL_NAME == 8

AD_TYPE_COMPLETE_LOCAL_NAME == 9

AD_TYPE_MANUFACTURER_SPECIFIC_DATA == 255

\* temperature_out = -999.0, in tenths of a degree
InvalidTemperature == -9990

\* humidity_out = -999.0
InvalidHumidity == -999

\* most records in one advertisement
MaxRecords == 2

\* a TLV record: its type tag and its payload bytes
Record(t, p) == [type |-> t, payload |-> p]

\* the bytes of a record: length (type and payload), type, payload
EncodeRecord(r) == << Len(r.payload) + 1, r.type >> \o r.payload

RECURSIVE EncodeRecords(_)
EncodeRecords(recs) ==
    IF Len(recs) = 0 THEN << >>
    ELSE EncodeRecord(Head(recs)) \o EncodeRecords(Tail(recs))

\* sensor bytes that cover both signs and the ends of the ranges
SensorBytes ==
    { << 194, b1, b2, b3 >> : b1 \in {0, 1, 255}, b2 \in {0, 127, 128, 255},
                              b3 \in {0, 100, 255} }

\* the records that arrive alone
SingleRecordInputs ==
    { Record(AD_TYPE_MANUFACTURER_SPECIFIC_DATA, p) : p \in SensorBytes }

\* the records that arrive in every combination
RecordInputs ==
    { Record(AD_TYPE_COMPLETE_LOCAL_NAME, << 65 >>),
      Record(AD_TYPE_SHORT_LOCAL_NAME, << 66, 67 >>),
      Record(AD_TYPE_COMPLETE_LOCAL_NAME, << >>),
      Record(1, << 6 >>),
      Record(AD_TYPE_MANUFACTURER_SPECIFIC_DATA, << 194, 1, 210, 55 >>),
      Record(AD_TYPE_MANUFACTURER_SPECIFIC_DATA, << 194, 24, 252, 128, 7 >>),
      Record(AD_TYPE_MANUFACTURER_SPECIFIC_DATA, << 194, 1, 210 >>),
      Record(AD_TYPE_MANUFACTURER_SPECIFIC_DATA, << >>) }

RECURSIVE RecordLists(_)
RecordLists(n) ==
    IF n = 0 THEN { << >> }
    ELSE RecordLists(n - 1) \cup
         { Append(l, r) : l \in { x \in RecordLists(n - 1) : Len(x) = n - 1 },
                          r \in RecordInputs }

\* what follows the records: nothing, or an end-of-data byte and further bytes
TailInputs ==
    { << >>,
      << 0 >> \o EncodeRecord(Record(AD_TYPE_COMPLETE_LOCAL_NAME, << 90 >>))
              \o EncodeRecord(Record(AD_TYPE_MANUFACTURER_SPECIFIC_DATA, << 194, 9, 0, 9 >>)) }

\* what the memory behind the bytes may hold
StaleBytes == {0, 9}

\* what the caller's string may hold before the call
PriorNames == { << >>, << 88 >> }

\* data[i], i counted from 0; behind the bytes lies stale memory
Mem(data, stale, i) == IF i < Len(data) THEN data[i + 1] ELSE stale

\* field_data[0 .. n-1] with field_data = &data[off + 2]
FieldData(data, stale, off, n) == [i \in 1..n |-> Mem(data, stale, off + 1 + i)]

\* a | b on non-negative integers
RECURSIVE BitOr(_, _)
BitOr(a, b) ==
    IF a = 0 THEN b
    ELSE IF b = 0 THEN a
    ELSE (IF a % 2 = 1 \/ b % 2 = 1 THEN 1 ELSE 0) + 2 * BitOr(a \div 2, b \div 2)

\* a conversion that keeps the 16 bits as an unsigned number
ToUInt16(v) == v % 65536

\* conversion of an int to int16_t
ToInt16(v) == IF v % 65536 >= 32768 THEN (v % 65536) - 65536 ELSE v % 65536

\* int16_t temp_raw = (field_data[1] | (field_data[2] << 8))
TempRaw(b1, b2) == ToInt16(BitOr(b1, b2 * 256))

\* a test that lets every manufacturer record through
EnoughSensorBytesAlways(n) == TRUE

\* if (field_data_len >= 4)
EnoughSensorBytes(n) == n >= 4

\* a name test that knows the complete local name only
IsNameTypeCompleteOnly(t) == t = AD_TYPE_COMPLETE_LOCAL_NAME

\* case AD_TYPE_COMPLETE_LOCAL_NAME: case AD_TYPE_SHORT_LOCAL_NAME:
IsNameType(t) == t \in {AD_TYPE_COMPLETE_LOCAL_NAME, AD_TYPE_SHORT_LOCAL_NAME}

\* an advance that forgets the length byte
NextOffsetShort(off, field_len) == off + field_len

\* offset += field_len + 1
NextOffset(off, field_len) == off + field_len + 1

\* the decoders are not running: one fixed advertisement, nothing decoded
DecIdle ==
    /\ dec_data = << >>
    /\ dec_len = 0
    /\ dec_stale = 0
    /\ dec_kind = "general"
    /\ dec_pc = "idle"
    /\ offset = 0
    /\ device_name_out = << >>
    /\ temperature_out = 0
    /\ humidity_out = 0
    /\ dec_maxread = -1
    /\ dec_recs = << >>
    /\ dec_offsets = << >>

\* the calls that are made: every list of records, alone or followed by an
\* end-of-data byte, with every length up to the number of bytes sent
DecInit ==
    /\ \E recs \in RecordLists(MaxRecords) \cup { << r >> : r \in SingleRecordInputs },
          tail \in TailInputs :
          /\ dec_recs = recs
          /\ dec_data = EncodeRecords(recs) \o tail
          /\ dec_len \in 0..(Len(EncodeRecords(recs)) + Len(tail))
    /\ dec_stale \in StaleBytes
    /\ dec_kind = "general"
    /\ dec_pc = "idle"
    /\ offset = 0
    /\ device_name_out \in PriorNames
    /\ temperature_out = 0
    /\ humidity_out = 0
    /\ dec_maxread = -1
    /\ dec_offsets = << >>

\* entry of a decoder: device_name_out.clear(), the sensor decoder also sets
\* both values to -999.0; int offset = 0
DecCall(kind) ==
    /\ dec_pc = "idle"
    /\ dec_kind' = kind
    /\ device_name_out' = << >>
    /\ temperature_out' = IF kind = "tp357" THEN InvalidTemperature ELSE temperature_out
    /\ humidity_out' = IF kind = "tp357" THEN InvalidHumidity ELSE humidity_out
    /\ offset' = 0
    /\ dec_pc' = "loop"
    /\ UNCHANGED << dec_data, dec_len, dec_stale, dec_maxread, dec_recs, dec_offsets >>
    /\ UNCHANGED << aggVars, scanVars, mqVars, serVars, mainVars, repVars, winVars, ownVars, quiVars >>

\* one test of while (offset < len) and one pass through the loop body
DecLoop ==
    /\ dec_pc = "loop"
    /\ IF offset < dec_len
       THEN LET field_len == Mem(dec_data, dec_stale, offset)
                field_type == Mem(dec_data, dec_stale, offset + 1)
                field_data_len == field_len - 1
                field_data == FieldData(dec_data, dec_stale, offset, field_data_len)
                sensor == /\ dec_kind = "tp357"
                          /\ field_type = AD_TYPE_MANUFACTURER_SPECIFIC_DATA
                          /\ EnoughSensorBytes(field_data_len)
                \* the sensor decoder is called with verbose_output and prints
                \* every byte of every field; the name pass reads name fields
                reads_field == dec_kind = "tp357" \/ IsNameType(field_type)
            IN  /\ dec_offsets' = Append(dec_offsets, offset)
                /\ IF field_len = 0
                   THEN /\ dec_pc' = "done"
                        /\ dec_maxread' = Max(dec_maxread, offset)
                        /\ UNCHANGED << offset, device_name_out, temperature_out,
                                        humidity_out >>
                   ELSE /\ device_name_out' = IF IsNameType(field_type)
                                              THEN field_data ELSE device_name_out
                        /\ temperature_out' = IF sensor
                                              THEN TempRaw(Mem(dec_data, dec_stale, offset + 3),
                                                           Mem(dec_data, dec_stale, offset + 4))
                                              ELSE temperature_out
                        /\ humidity_out' = IF sensor
                                           THEN Mem(dec_data, dec_stale, offset + 5)
                                           ELSE humidity_out
                        /\ dec_maxread' =
                              Max(dec_maxread,
                                  Max(IF reads_field THEN offset + 1 + field_data_len
                                      ELSE offset + 1,
                                      IF sensor THEN offset + 5 ELSE offset + 1))
                        /\ offset' = NextOffset(offset, field_len)
                        /\ UNCHANGED dec_pc
       ELSE /\ dec_pc' = "done"
            /\ UNCHANGED << offset, device_name_out, temperature_out, humidity_out,
                            dec_maxread, dec_offsets >>
    /\ UNCHANGED << dec_data, dec_len, dec_stale, dec_kind, dec_recs >>
    /\ UNCHANGED << aggVars, scanVars, mqVars, serVars, mainVars, repVars, winVars, ownVars, quiVars >>

DecNext ==
    \/ \E kind \in {"general", "tp357"} : DecCall(kind)
    \/ DecLoop

(***************************************************************************)
(* The bytes of SensorDataSerializer::serializeSensorDataMap and the        *)
(* receiving decodeSensorDataBlob                                           *)
(***************************************************************************)
\* largest value of uint8_t num_sensors
MaxCount == 255

\* most entries of the mappings that are built from every entry
MaxEntries == 2

HexDigits == << "0", "1", "2", "3", "4", "5", "6", "7", "8", "9",
                "A", "B", "C", "D", "E", "F" >>

LowerHexDigits == << "0", "1", "2", "3", "4", "5", "6", "7", "8", "9",
                     "a", "b", "c", "d", "e", "f" >>

IsHex(c) == \E v \in 1..16 : HexDigits[v] = c \/ LowerHexDigits[v] = c

\* value of a hex digit as %hhx reads it, in either case
HexVal(c) == (CHOOSE v \in 1..16 : HexDigits[v] = c \/ LowerHexDigits[v] = c) - 1

\* the fallback that writes nothing for a malformed address
MacFallbackNone == << >>

\* six zero bytes as fallback for a malformed MAC
MacFallback == << 0, 0, 0, 0, 0, 0 >>

\* sscanf(mac, "%hhx:%hhx:%hhx:%hhx:%hhx:%hhx") == 6 on an address of six
\* two-digit groups: the six bytes; otherwise the fallback
ParseMac(s) ==
    IF /\ Len(s) >= 17
       /\ \A k \in 0..5 : /\ IsHex(s[3 * k + 1]) /\ IsHex(s[3 * k + 2])
                          /\ k < 5 => s[3 * k + 3] = ":"
    THEN [k \in 1..6 |-> 16 * HexVal(s[3 * k - 2]) + HexVal(s[3 * k - 1])]
    ELSE MacFallback

\* static_cast<char>(data.rssi): the byte of an int8_t
Int8Byte(r) == r % 256

\* an entry whose malformed address makes the serializer skip the entry
EntryBytesSkipBad(d) ==
    IF ParseMac(d.mac_address) = MacFallback THEN << >>
    ELSE ParseMac(d.mac_address) \o d.temperature \o d.humidity \o << Int8Byte(d.rssi) >>

\* the 23 bytes of one entry: address, temperature, humidity, RSSI
EntryBytes(d) ==
    ParseMac(d.mac_address) \o d.temperature \o d.humidity \o << Int8Byte(d.rssi) >>

\* the bytes of the entries lo..hi of the mapping, in map order (the appends
\* of the loop, grouped in halves)
RECURSIVE EntriesBytesOf(_, _, _)
EntriesBytesOf(m, lo, hi) ==
    IF lo > hi THEN << >>
    ELSE IF lo = hi THEN EntryBytes(m[lo])
    ELSE EntriesBytesOf(m, lo, (lo + hi) \div 2)
         \o EntriesBytesOf(m, ((lo + hi) \div 2) + 1, hi)

\* for (const auto& pair : data_map): every entry appended in map order
EntriesBytes(m) == EntriesBytesOf(m, 1, Len(m))

\* buffer: static_cast<uint8_t>(data_map.size()), then every entry in map order
SerializeBlob(m) == << Len(m) % 256 >> \o EntriesBytes(m)

\* b.toString(16).padStart(2, '0').toUpperCase() joined with ':'
RECURSIVE FormatMac(_)
FormatMac(bytes) ==
    IF Len(bytes) = 0 THEN << >>
    ELSE << HexDigits[(Head(bytes) \div 16) + 1], HexDigits[(Head(bytes) % 16) + 1] >>
         \o (IF Len(bytes) = 1 THEN << >> ELSE << ":" >> \o FormatMac(Tail(bytes)))

\* a read of the RSSI byte as an unsigned number
ReadUInt8(b) == b

\* blobData.readInt8(offset)
ReadInt8(b) == IF b >= 128 THEN b - 256 ELSE b

\* one pass of the loop of decodeSensorDataBlob at offset off (counted from
\* 0): 6 address bytes, two doubles of 8 bytes, one RSSI byte
EntryAt(blob, off) ==
    [mac_address |-> FormatMac(SubSeq(blob, off + 1, off + 6)),
     temperature |-> SubSeq(blob, off + 7, off + 14),
     humidity |-> SubSeq(blob, off + 15, off + 22),
     rssi |-> ReadInt8(blob[off + 23])]

\* whether the reads of one pass at offset off stay inside the blob
EntryFits(blob, off) ==
    ~(Len(blob) < off + 6 \/ Len(blob) < off + 14 \/ Len(blob) < off + 22
      \/ Len(blob) < off + 23)

\* the offset at which pass i (from 1) of the loop starts: 1 for the count
\* byte, then 6 + 8 + 8 + 1 per earlier pass
OffsetOfPass(i) == 1 + (i - 1) * (6 + 8 + 8 + 1)

\* the loop of decodeSensorDataBlob over numSensors entries: the entries read
\* and the final offset; a blob too short for a field gives no entries and
\* the offset of the pass that failed
DecodeFrom(blob, numSensors) ==
    LET failed == { i \in 1..numSensors : ~EntryFits(blob, OffsetOfPass(i)) }
    IN  IF failed = {}
        THEN [entries |-> [i \in 1..numSensors |-> EntryAt(blob, OffsetOfPass(i))],
              offset |-> OffsetOfPass(numSensors + 1)]
        ELSE [entries |-> << >>,
              offset |-> OffsetOfPass(CHOOSE i \in failed : \A j \in failed : i <= j)]

\* decodeSensorDataBlob(blobData)
decodeSensorDataBlob(blob) ==
    IF Len(blob) < 1 THEN [entries |-> << >>, offset |-> 0]
    ELSE DecodeFrom(blob, blob[1])

\* a string as its characters
Chars(s) ==
    CASE s = "" -> << >>
      [] s = "E2:76:F5" -> << "E", "2", ":", "7", "6", ":", "F", "5" >>
      [] s = "E2:76:F5:4B:E4:F0" ->
           << "E", "2", ":", "7", "6", ":", "F", "5", ":", "4", "B", ":", "E", "4", ":", "F", "0" >>
      [] s = "F8:5F:2B:62:E5:F5" ->
           << "F", "8", ":", "5", "F", ":", "2", "B", ":", "6", "2", ":", "E", "5", ":", "F", "5" >>
      [] s = "e2:76:f5:4b:e4:f0" ->
           << "e", "2", ":", "7", "6", ":", "f", "5", ":", "4", "b", ":", "e", "4", ":", "f", "0" >>

\* the keys of the small mappings in std::map order: the empty key of a
\* default SensorData, an address cut after three groups (sscanf returns 3),
\* the addresses of Macs, and one lower-case address
MacInputs ==
    << "", "E2:76:F5", "E2:76:F5:4B:E4:F0", "F8:5F:2B:62:E5:F5", "e2:76:f5:4b:e4:f0" >>

\* the object representation (little-endian host) of the doubles 0.0, 23.5,
\* 55.0 and -999.0
DoubleInputs ==
    { << 0, 0, 0, 0, 0, 0, 0, 0 >>, << 0, 0, 0, 0, 0, 128, 55, 64 >>,
      << 0, 0, 0, 0, 0, 128, 75, 64 >>, << 0, 0, 0, 0, 0, 56, 143, 192 >> }

RssiInputs == { -128, -60, 0, 127 }

\* the SensorData values an entry of key MacInputs[i] can hold
EntryInputs(i) ==
    { [mac_address |-> Chars(MacInputs[i]), temperature |-> t, humidity |-> h, rssi |-> r] :
        t \in DoubleInputs \ { << 0, 0, 0, 0, 0, 128, 75, 64 >> },
        h \in { << 0, 0, 0, 0, 0, 128, 75, 64 >>, << 0, 0, 0, 0, 0, 56, 143, 192 >> },
        r \in RssiInputs }

\* the mappings with at most n entries and keys from MacInputs[i..]
RECURSIVE SmallMaps(_, _)
SmallMaps(i, n) ==
    IF n = 0 \/ i > Len(MacInputs) THEN { << >> }
    ELSE SmallMaps(i + 1, n) \cup
         { << d >> \o rest : d \in EntryInputs(i), rest \in SmallMaps(i + 1, n - 1) }

\* the mapping of n generated addresses 00:00:00:00:HH:LL in key order
BigMap(n) ==
    [i \in 1..n |->
        [mac_address |-> FormatMac(<< 0, 0, 0, 0, i \div 256, i % 256 >>),
         temperature |-> << 0, 0, 0, 0, 0, 128, 55, 64 >>,
         humidity |-> << 0, 0, 0, 0, 0, 128, 75, 64 >>,
         rssi |-> (i % 256) - 128]]

\* the mappings that are serialized
MapInputs == SmallMaps(1, MaxEntries) \cup { BigMap(MaxCount), BigMap(MaxCount + 1) }

NoDecoded == [entries |-> << >>, offset |-> 0]

\* no serialization is running
SerIdle ==
    /\ ser_map = << >>
    /\ ser_blob = << >>
    /\ ser_decoded = NoDecoded
    /\ ser_pc = "idle"

SerInit ==
    /\ ser_map \in MapInputs
    /\ ser_blob = << >>
    /\ ser_decoded = NoDecoded
    /\ ser_pc = "idle"

\* the aggregator serializes its mapping
SerCall ==
    /\ ser_pc = "idle"
    /\ ser_blob' = SerializeBlob(ser_map)
    /\ ser_pc' = "serialized"
    /\ UNCHANGED << ser_map, ser_decoded >>
    /\ UNCHANGED << aggVars, scanVars, mqVars, decVars, mainVars, repVars, winVars, ownVars, quiVars >>

\* the receiver decodes the body of the POST
BlobDecode ==
    /\ ser_pc = "serialized"
    /\ ser_decoded' = decodeSensorDataBlob(ser_blob)
    /\ ser_pc' = "decoded"
    /\ UNCHANGED << ser_map, ser_blob >>
    /\ UNCHANGED << aggVars, scanVars, mqVars, decVars, mainVars, repVars, winVars, ownVars, quiVars >>

SerNext ==
    \/ SerCall
    \/ BlobDecode

(***************************************************************************)
(* main() and signal_handler: start-up, SIGINT, shutdown                    *)
(***************************************************************************)
\* most SIGINTs delivered in one run
MaxSignals == 2

\* the handler runs on a thread: that thread does nothing else meanwhile
HandlerActive == sig_pc \in {"lock", "loop", "scan", "deadlocked", "terminated"}

MainRuns == ~(HandlerActive /\ sig_thread = "main") /\ sig_pc # "terminated"

ScanThreadRuns == ~(HandlerActive /\ sig_thread = "scan") /\ sig_pc # "terminated"

\* after std::signal(SIGINT, signal_handler): nothing created yet
MainIdle ==
    /\ main_pc = "installed"
    /\ main_i = 0
    /\ g_consumers_mutex = "free"
    /\ g_scanner_ptr = FALSE
    /\ g_consumers = << >>
    /\ scanner_thread = "none"
    /\ scan_stopped = FALSE
    /\ sig_pc = "none"
    /\ sig_thread = "main"
    /\ sig_i = 0
    /\ sig_count = 0

\* BluetoothScanner scanner; g_scanner_ptr = &scanner;
MainSetPtr ==
    /\ MainRuns
    /\ main_pc = "installed"
    /\ g_scanner_ptr' = TRUE
    /\ main_pc' = "ptr_set"
    /\ UNCHANGED << main_i, g_consumers_mutex, g_consumers, scanner_thread,
                    scan_stopped, sig_pc, sig_thread, sig_i, sig_count >>
    /\ UNCHANGED << aggVars, scanVars, mqVars, decVars, serVars, repVars, winVars, ownVars, quiVars >>

\* scanner.init() and the database succeed; both consumers are pushed
MainMakeConsumers ==
    /\ MainRuns
    /\ main_pc = "ptr_set"
    /\ g_consumers' = << "created", "created" >>
    /\ main_pc' = "made"
    /\ UNCHANGED << main_i, g_consumers_mutex, g_scanner_ptr, scanner_thread,
                    scan_stopped, sig_pc, sig_thread, sig_i, sig_count >>
    /\ UNCHANGED << aggVars, scanVars, mqVars, decVars, serVars, repVars, winVars, ownVars, quiVars >>

\* std::lock_guard<std::mutex> lock(g_consumers_mutex) in main(), before
\* either for loop; main waits while another thread holds the mutex
MainLock ==
    /\ MainRuns
    /\ main_pc \in {"made", "joined"}
    /\ g_consumers_mutex = "free"
    /\ g_consumers_mutex' = "main"
    /\ main_pc' = IF main_pc = "made" THEN "starting" ELSE "stopping"
    /\ main_i' = 0
    /\ UNCHANGED << g_scanner_ptr, g_consumers, scanner_thread, scan_stopped,
                    sig_pc, sig_thread, sig_i, sig_count >>
    /\ UNCHANGED << aggVars, scanVars, mqVars, decVars, serVars, repVars, winVars, ownVars, quiVars >>

\* consumer_ptr->startConsuming(): a thread is created unless one is joinable
MainStartOne ==
    /\ MainRuns
    /\ main_pc = "starting"
    /\ main_i < Len(g_consumers)
    /\ g_consumers' = [g_consumers EXCEPT ![main_i + 1] = "running"]
    /\ main_i' = main_i + 1
    /\ UNCHANGED << main_pc, g_consumers_mutex, g_scanner_ptr, scanner_thread,
                    scan_stopped, sig_pc, sig_thread, sig_i, sig_count >>
    /\ UNCHANGED << aggVars, scanVars, mqVars, decVars, serVars, repVars, winVars, ownVars, quiVars >>

\* end of the block of the first for loop: the lock_guard releases the mutex
MainStartUnlock ==
    /\ MainRuns
    /\ main_pc = "starting"
    /\ main_i = Len(g_consumers)
    /\ g_consumers_mutex' = "free"
    /\ main_pc' = "started"
    /\ UNCHANGED << main_i, g_scanner_ptr, g_consumers, scanner_thread,
                    scan_stopped, sig_pc, sig_thread, sig_i, sig_count >>
    /\ UNCHANGED << aggVars, scanVars, mqVars, decVars, serVars, repVars, winVars, ownVars, quiVars >>

\* std::thread scanner_thread(&BluetoothScanner::startScan, &scanner)
MainStartScanner ==
    /\ MainRuns
    /\ main_pc = "started"
    /\ scanner_thread' = "running"
    /\ main_pc' = "join"
    /\ UNCHANGED << main_i, g_consumers_mutex, g_scanner_ptr, g_consumers,
                    scan_stopped, sig_pc, sig_thread, sig_i, sig_count >>
    /\ UNCHANGED << aggVars, scanVars, mqVars, decVars, serVars, repVars, winVars, ownVars, quiVars >>

\* startScan() returns: after stopScan() (stopped), or on its own after a
\* failure of select() or read()
ScanThreadExit(stopped) ==
    /\ ScanThreadRuns
    /\ scanner_thread = "running"
    /\ stopped = scan_stopped
    /\ scanner_thread' = "exited"
    /\ UNCHANGED << main_pc, main_i, g_consumers_mutex, g_scanner_ptr, g_consumers,
                    scan_stopped, sig_pc, sig_thread, sig_i, sig_count >>
    /\ UNCHANGED << aggVars, scanVars, mqVars, decVars, serVars, repVars, winVars, ownVars, quiVars >>

\* scanner_thread.join() returns
MainJoin ==
    /\ MainRuns
    /\ main_pc = "join"
    /\ scanner_thread = "exited"
    /\ main_pc' = "joined"
    /\ UNCHANGED << main_i, g_consumers_mutex, g_scanner_ptr, g_consumers,
                    scanner_thread, scan_stopped, sig_pc, sig_thread, sig_i, sig_count >>
    /\ UNCHANGED << aggVars, scanVars, mqVars, decVars, serVars, repVars, winVars, ownVars, quiVars >>

\* stopConsuming() on a consumer: a running one is signalled and joined
StopConsumer(c) == IF c = "running" THEN "stopped" ELSE c

\* consumer_ptr->stopConsuming() in the final for loop of main()
MainStopOne ==
    /\ MainRuns
    /\ main_pc = "stopping"
    /\ main_i < Len(g_consumers)
    /\ g_consumers' = [g_consumers EXCEPT ![main_i + 1] = StopConsumer(@)]
    /\ main_i' = main_i + 1
    /\ UNCHANGED << main_pc, g_consumers_mutex, g_scanner_ptr, scanner_thread,
                    scan_stopped, sig_pc, sig_thread, sig_i, sig_count >>
    /\ UNCHANGED << aggVars, scanVars, mqVars, decVars, serVars, repVars, winVars, ownVars, quiVars >>

\* g_consumers.clear() and the end of the block: the consumers are destroyed
\* (their destructors stop them) and the mutex is released
MainClear ==
    /\ MainRuns
    /\ main_pc = "stopping"
    /\ main_i = Len(g_consumers)
    /\ g_consumers' = << >>
    /\ g_consumers_mutex' = "free"
    /\ main_pc' = "cleared"
    /\ main_i' = 0
    /\ UNCHANGED << g_scanner_ptr, scanner_thread, scan_stopped, sig_pc,
                    sig_thread, sig_i, sig_count >>
    /\ UNCHANGED << aggVars, scanVars, mqVars, decVars, serVars, repVars, winVars, ownVars, quiVars >>

\* curl_global_cleanup(); return 0;
MainExit ==
    /\ MainRuns
    /\ main_pc = "cleared"
    /\ main_pc' = "exit"
    /\ UNCHANGED << main_i, g_consumers_mutex, g_scanner_ptr, g_consumers,
                    scanner_thread, scan_stopped, sig_pc, sig_thread, sig_i, sig_count >>
    /\ UNCHANGED << aggVars, scanVars, mqVars, decVars, serVars, repVars, winVars, ownVars, quiVars >>

\* a SIGINT is delivered to thread t, which enters signal_handler
SigDeliver(t) ==
    /\ sig_count < MaxSignals
    /\ sig_pc \in {"none", "returned"}
    /\ main_pc # "exit"
    /\ t = "scan" => scanner_thread = "running"
    /\ sig_pc' = "lock"
    /\ sig_thread' = t
    /\ sig_i' = 0
    /\ sig_count' = sig_count + 1
    /\ UNCHANGED << main_pc, main_i, g_consumers_mutex, g_scanner_ptr, g_consumers,
                    scanner_thread, scan_stopped >>
    /\ UNCHANGED << aggVars, scanVars, mqVars, decVars, serVars, repVars, winVars, ownVars, quiVars >>

\* what locking a std::mutex the calling thread already owns can do
RelockOutcomes == {"deadlocked", "terminated"}

\* std::lock_guard<std::mutex> lock(g_consumers_mutex) in signal_handler. The
\* handler waits while another thread holds the mutex; when the thread it
\* interrupted holds it, the behaviour is undefined: it blocks for ever, or
\* lock() throws and the program is terminated
SigLock ==
    /\ sig_pc = "lock"
    /\ \/ /\ g_consumers_mutex = "free"
          /\ g_consumers_mutex' = "handler"
          /\ sig_pc' = "loop"
       \/ /\ g_consumers_mutex = sig_thread
          /\ sig_pc' \in RelockOutcomes
          /\ UNCHANGED g_consumers_mutex
    /\ UNCHANGED << main_pc, main_i, g_scanner_ptr, g_consumers, scanner_thread,
                    scan_stopped, sig_thread, sig_i, sig_count >>
    /\ UNCHANGED << aggVars, scanVars, mqVars, decVars, serVars, repVars, winVars, ownVars, quiVars >>

\* consumer_ptr->stopConsuming() in signal_handler
SigStopOne ==
    /\ sig_pc = "loop"
    /\ sig_i < Len(g_consumers)
    /\ g_consumers' = [g_consumers EXCEPT ![sig_i + 1] = StopConsumer(@)]
    /\ sig_i' = sig_i + 1
    /\ UNCHANGED << main_pc, main_i, g_consumers_mutex, g_scanner_ptr,
                    scanner_thread, scan_stopped, sig_pc, sig_thread, sig_count >>
    /\ UNCHANGED << aggVars, scanVars, mqVars, decVars, serVars, repVars, winVars, ownVars, quiVars >>

\* if (g_scanner_ptr) g_scanner_ptr->stopScan();
SigStopScan ==
    /\ sig_pc = "loop"
    /\ sig_i = Len(g_consumers)
    /\ scan_stopped' = (scan_stopped \/ g_scanner_ptr)
    /\ sig_pc' = "scan"
    /\ UNCHANGED << main_pc, main_i, g_consumers_mutex, g_scanner_ptr, g_consumers,
                    scanner_thread, sig_thread, sig_i, sig_count >>
    /\ UNCHANGED << aggVars, scanVars, mqVars, decVars, serVars, repVars, winVars, ownVars, quiVars >>

\* signal_handler returns: the lock_guard releases the mutex
SigReturn ==
    /\ sig_pc = "scan"
    /\ g_consumers_mutex' = "free"
    /\ sig_pc' = "returned"
    /\ UNCHANGED << main_pc, main_i, g_scanner_ptr, g_consumers, scanner_thread,
                    scan_stopped, sig_thread, sig_i, sig_count >>
    /\ UNCHANGED << aggVars, scanVars, mqVars, decVars, serVars, repVars, winVars, ownVars, quiVars >>

MainNext ==
    \/ MainSetPtr
    \/ MainMakeConsumers
    \/ MainLock
    \/ MainStartOne
    \/ MainStartUnlock
    \/ MainStartScanner
    \/ \E stopped \in BOOLEAN : ScanThreadExit(stopped)
    \/ MainJoin
    \/ MainStopOne
    \/ MainClear
    \/ MainExit
    \/ \E t \in {"main", "scan"} : SigDeliver(t)
    \/ SigLock
    \/ SigStopOne
    \/ SigStopScan
    \/ SigReturn

\* every thread is scheduled; a SIGINT and a failure of the scan loop need not
\* happen
MainFairness ==
    /\ WF_vars(MainSetPtr) /\ WF_vars(MainMakeConsumers) /\ WF_vars(MainLock)
    /\ WF_vars(MainStartOne) /\ WF_vars(MainStartUnlock) /\ WF_vars(MainStartScanner)
    /\ WF_vars(ScanThreadExit(TRUE)) /\ WF_vars(MainJoin) /\ WF_vars(MainStopOne)
    /\ WF_vars(MainClear) /\ WF_vars(MainExit)
    /\ WF_vars(SigLock) /\ WF_vars(SigStopOne) /\ WF_vars(SigStopScan)
    /\ WF_vars(SigReturn)

(***************************************************************************)
(* The report loop of startScan() on the bytes of a frame                   *)
(***************************************************************************)
\* most reports of a generated frame
MaxReports == 2

\* HCI_EVENT_PKT
HCI_EVENT_PKT == 4

\* EVT_LE_META
EVT_LE_META == 62

\* EVT_LE_ADVERTISING_REPORT
EVT_LE_ADVERTISING_REPORT == 2

\* sizeof(le_advertising_info): evt_type, bdaddr_type, bdaddr[6], length
LE_ADVERTISING_INFO_SIZE == 9

\* the characters of the bytes that occur in the generated names
AsciiChar(b) ==
    CASE b = 84 -> "T" [] b = 80 -> "P" [] b = 51 -> "3" [] b = 53 -> "5"
      [] b = 55 -> "7" [] b = 105 -> "i" [] b = 65 -> "A" [] b = 71 -> "G"
      [] OTHER -> "?"

\* a name pass that keeps the first name it finds
RECURSIVE GeneralNameKeepsFirst(_, _, _, _, _)
GeneralNameKeepsFirst(data, stale, len, off, name) ==
    IF off >= len THEN name
    ELSE LET field_len == Mem(data, stale, off)
         IN  IF field_len = 0 THEN name
             ELSE GeneralNameKeepsFirst(data, stale, len, NextOffset(off, field_len),
                                        IF IsNameType(Mem(data, stale, off + 1)) /\ name = << >>
                                        THEN FieldData(data, stale, off, field_len - 1)
                                        ELSE name)

\* parse_advertising_data_general(data, len, device_name) as a function of
\* its arguments: the name left in device_name when the walk starts at off
RECURSIVE GeneralNameFrom(_, _, _, _, _)
GeneralNameFrom(data, stale, len, off, name) ==
    IF off >= len THEN name
    ELSE LET field_len == Mem(data, stale, off)
         IN  IF field_len = 0 THEN name
             ELSE GeneralNameFrom(data, stale, len, NextOffset(off, field_len),
                                  IF IsNameType(Mem(data, stale, off + 1))
                                  THEN FieldData(data, stale, off, field_len - 1)
                                  ELSE name)

\* device_name after parse_advertising_data_general, as characters
GeneralName(data, stale, len) ==
    LET bytes == GeneralNameFrom(data, stale, len, 0, << >>)
    IN  [k \in 1..Len(bytes) |-> AsciiChar(bytes[k])]

\* ba2str(&info->bdaddr, addr): the six bytes from the last to the first, as
\* two upper-case hex digits each, joined by colons
ba2str(b) == FormatMac(<< b[6], b[5], b[4], b[3], b[2], b[1] >>)

\* (int8_t) of a byte
ToInt8(b) == IF b >= 128 THEN b - 256 ELSE b

\* the handlers main() registers
RepHandlers == << [kind |-> "TP357Handler"] >>

\* one advertising report of a generated frame
Report(bdaddr, data, rssi) == [bdaddr |-> bdaddr, data |-> data, rssi |-> rssi]

\* the bytes of one report: event type, address type, address, length, data,
\* RSSI; extra is added to the declared length
ReportBytes(r, extra) ==
    << 0, 0 >> \o r.bdaddr \o << Len(r.data) + extra >> \o r.data \o << r.rssi >>

RECURSIVE ReportsBytes(_)
ReportsBytes(rs) ==
    IF Len(rs) = 0 THEN << >> ELSE ReportBytes(Head(rs), 0) \o ReportsBytes(Tail(rs))

\* the bytes of a frame: packet type, event code, declared length, parameters
FrameBytes(ptype, code, event_len, params) ==
    << ptype, code, event_len >> \o params

\* an event frame of these parameter bytes whose declared length is right
EventFrame(code, params) == FrameBytes(HCI_EVENT_PKT, code, Len(params), params)

\* the advertising payloads of the generated reports: none, the name TP357,
\* a flags record followed by the name TP357
ReportDataInputs ==
    { << >>,
      << 6, 9, 84, 80, 51, 53, 55 >>,
      << 2, 1, 6, 6, 9, 84, 80, 51, 53, 55 >> }

ReportInputs ==
    { Report(b, d, r) :
        b \in { << 240, 228, 75, 245, 118, 226 >>, << 1, 2, 3, 4, 5, 6 >> },
        d \in ReportDataInputs,
        r \in { 0, 196 } }

RECURSIVE ReportLists(_)
ReportLists(n) ==
    IF n = 0 THEN { << >> }
    ELSE ReportLists(n - 1) \cup
         { Append(rs, r) : rs \in { l \in ReportLists(n - 1) : Len(l) = n - 1 },
                           r \in ReportInputs }

\* what buf may hold behind the bytes read
BufStaleBytes == {0, 2}

\* no frame is being looked at
RepIdle ==
    /\ buf = << >>
    /\ buf_stale = 0
    /\ rep_pc = "idle"
    /\ reports_count = 0
    /\ ptr = 0
    /\ rep_i = 0
    /\ rep_calls = << >>
    /\ rep_maxread = -1
    /\ rep_reports = << >>
    /\ rep_declared = 0

\* the frames read: LE meta events with the reports of a list and a declared
\* count that is the number of reports or one more, with the last byte of the
\* frame present or missing; the same frames with the last report declaring
\* one payload byte more than it has; other subevents and other events; an LE
\* meta event without parameters; frames of another packet type or with a
\* declared length that is one more than the parameters read
RepInit ==
    /\ \E rs \in ReportLists(MaxReports), more \in {0, 1}, cut \in {0, 1},
          sub \in {EVT_LE_ADVERTISING_REPORT, 1}, code \in {EVT_LE_META, 14},
          longer \in {0, 1}, ptype \in {HCI_EVENT_PKT, 2}, over \in {0, 1} :
          LET body == IF longer = 1 /\ Len(rs) > 0
                      THEN ReportsBytes(SubSeq(rs, 1, Len(rs) - 1))
                           \o ReportBytes(rs[Len(rs)], 1)
                      ELSE ReportsBytes(rs)
              params == << sub, Len(rs) + more >> \o body
              kept == IF cut = 1 /\ Len(rs) = 0 THEN << >>
                      ELSE SubSeq(params, 1, Len(params) - cut)
          IN  /\ (sub # EVT_LE_ADVERTISING_REPORT \/ code # EVT_LE_META
                   \/ ptype # HCI_EVENT_PKT \/ over # 0)
                    => (more = 0 /\ cut = 0 /\ longer = 0 /\ Len(rs) <= 1)
              /\ buf = FrameBytes(ptype, code, Len(kept) + over, kept)
              /\ rep_reports = rs
              /\ rep_declared = Len(rs) + more
    /\ buf_stale \in BufStaleBytes
    /\ rep_pc = "idle"
    /\ reports_count = 0
    /\ ptr = 0
    /\ rep_i = 0
    /\ rep_calls = << >>
    /\ rep_maxread = -1

\* the three tests of a frame on the bytes of buf
BufValid ==
    /\ Len(buf) >= 1 + HCI_EVENT_HDR_SIZE
    /\ buf[1] = HCI_EVENT_PKT
    /\ Len(buf) = 1 + HCI_EVENT_HDR_SIZE + buf[3]

\* a frame was read: the three tests, the event code, the subevent, the
\* report count, and ptr = meta->data + 1
RepFrame ==
    /\ rep_pc = "idle"
    /\ IF ~BufValid
       THEN /\ rep_pc' = "done"
            /\ rep_maxread' = Min(Len(buf), 1 + HCI_EVENT_HDR_SIZE) - 1
            /\ UNCHANGED << reports_count, ptr >>
       ELSE IF Mem(buf, buf_stale, 1) # EVT_LE_META
       THEN /\ rep_pc' = "done"
            /\ rep_maxread' = HCI_EVENT_HDR_SIZE
            /\ UNCHANGED << reports_count, ptr >>
       ELSE IF Mem(buf, buf_stale, 1 + HCI_EVENT_HDR_SIZE) # EVT_LE_ADVERTISING_REPORT
       THEN /\ rep_pc' = "done"
            /\ rep_maxread' = 1 + HCI_EVENT_HDR_SIZE
            /\ UNCHANGED << reports_count, ptr >>
       ELSE /\ rep_pc' = "loop"
            /\ reports_count' = Mem(buf, buf_stale, 1 + HCI_EVENT_HDR_SIZE + 1)
            /\ ptr' = 1 + HCI_EVENT_HDR_SIZE + 1 + 1
            /\ rep_maxread' = 1 + HCI_EVENT_HDR_SIZE + 1
    /\ UNCHANGED << buf, buf_stale, rep_i, rep_calls, rep_reports, rep_declared >>
    /\ UNCHANGED << aggVars, scanVars, mqVars, decVars, serVars, mainVars, winVars, ownVars, quiVars >>

\* the next report without the RSSI byte that follows the payload
NextReportNoRssi(p, length) == p + LE_ADVERTISING_INFO_SIZE + length

\* ptr = (uint8_t *)ptr + sizeof(*info) + info->length + 1
NextReport(p, length) == p + LE_ADVERTISING_INFO_SIZE + length + 1

\* one test of i < reports_count and one pass through the body of the loop
RepLoop ==
    /\ rep_pc = "loop"
    /\ IF rep_i < reports_count
       THEN LET length == Mem(buf, buf_stale, ptr + 8)
                data_at == ptr + LE_ADVERTISING_INFO_SIZE
                \* info->data as the decoder and the handler see it: the
                \* bytes of buf from the payload on, stale memory behind
                data == [j \in 1..Max(0, Len(buf) - data_at) |-> buf[data_at + j]]
                bdaddr == [k \in 1..6 |-> Mem(buf, buf_stale, ptr + 1 + k)]
                device_name == GeneralName(data, buf_stale, length)
                handled == DispatchFrom(RepHandlers, device_name, 1) # << >>
            IN  /\ rep_calls' =
                     Append(rep_calls,
                            [start |-> ptr,
                             addr |-> ba2str(bdaddr),
                             data |-> [j \in 1..length |-> Mem(data, buf_stale, j - 1)],
                             length |-> length,
                             handled |-> handled,
                             rssi |-> IF handled
                                      THEN ToInt8(Mem(data, buf_stale, length))
                                      ELSE 0])
                \* the reads of the pass: the address, the length, the
                \* payload when the decoder enters it, the RSSI when handled
                /\ rep_maxread' =
                     Max(rep_maxread,
                         IF handled THEN data_at + length
                         ELSE IF length > 0 THEN data_at + length - 1
                         ELSE ptr + 8)
                /\ ptr' = NextReport(ptr, length)
                /\ rep_i' = rep_i + 1
                /\ UNCHANGED rep_pc
       ELSE /\ rep_pc' = "done"
            /\ UNCHANGED << ptr, rep_i, rep_calls, rep_maxread >>
    /\ UNCHANGED << buf, buf_stale, reports_count, rep_reports, rep_declared >>
    /\ UNCHANGED << aggVars, scanVars, mqVars, decVars, serVars, mainVars, winVars, ownVars, quiVars >>

RepNext ==
    \/ RepFrame
    \/ RepLoop

(***************************************************************************)
(* The pop timeout of processingLoop() and consumingLoop(), in milliseconds *)
(***************************************************************************)
\* longest window generated, in seconds
MaxWindowSeconds == 3

\* std::chrono::seconds as milliseconds
SecondsToMs(sec) == sec * 1000

\* a timeout that is left at zero or below when the window is over
RemainingTimeUnclamped(duration_ms, elapsed) == duration_ms - elapsed

\* remaining_time = logging_window_duration_ - elapsed_in_window; a value of
\* zero or below is replaced by one millisecond
RemainingTime(duration_ms, elapsed) ==
    IF duration_ms - elapsed <= 0 THEN 1 ELSE duration_ms - elapsed

\* the window durations std::stoi can return for LOGGING_WINDOW_SECONDS
WindowSecondsInputs == (-1)..MaxWindowSeconds

\* the elapsed times at which the clock is read
ElapsedInputs ==
    { SecondsToMs(sec) + d : sec \in 0..MaxWindowSeconds, d \in {0, 1, 250, 500, 999} }

\* no consumer loop is looked at
WinIdle ==
    /\ logging_window_seconds = 0
    /\ elapsed_ms = 0
    /\ timeout_ms = 0
    /\ win_pc = "idle"

\* window_start_time_ = now at the start of the loop
WinInit ==
    /\ logging_window_seconds \in WindowSecondsInputs
    /\ elapsed_ms = 0
    /\ timeout_ms = 0
    /\ win_pc = "now"

\* the computation of remaining_time at the head of the loop; the clock is
\* read again there, at the time of the deadline check or one millisecond later
WinCompute ==
    /\ win_pc = "now"
    /\ \E late \in {0, 1} :
          /\ elapsed_ms' = elapsed_ms + late
          /\ timeout_ms' = RemainingTime(SecondsToMs(logging_window_seconds), elapsed_ms')
    /\ win_pc' = "pop"
    /\ UNCHANGED logging_window_seconds
    /\ UNCHANGED << aggVars, scanVars, mqVars, decVars, serVars, mainVars, repVars, ownVars, quiVars >>

\* pop returns after at most the timeout and the clock is read again; a
\* window that is over starts again (window_start_time_ = now)
WinPopReturns ==
    /\ win_pc = "pop"
    /\ \E e \in ElapsedInputs :
          /\ e >= elapsed_ms
          /\ e - elapsed_ms <= timeout_ms + 1
          /\ elapsed_ms' = IF e >= SecondsToMs(logging_window_seconds) THEN 0 ELSE e
    /\ win_pc' = "now"
    /\ UNCHANGED << logging_window_seconds, timeout_ms >>
    /\ UNCHANGED << aggVars, scanVars, mqVars, decVars, serVars, mainVars, repVars, ownVars, quiVars >>

WinNext ==
    \/ WinCompute
    \/ WinPopReturns

(***************************************************************************)
(* One aggregator, its window accesses taken apart into lock, access and    *)
(* unlock                                                                   *)
(***************************************************************************)
\* readings the producer pushes in the run
MaxOwnPushes == 2

\* no aggregator is looked at in this detail
OwnIdle ==
    /\ latest_samples_mutex_ = "none"
    /\ own_keep_running = FALSE
    /\ own_queue = << >>
    /\ own_loop_pc = "none"
    /\ own_stop_pc = "idle"
    /\ own_received = ""
    /\ own_window = {}
    /\ own_pushes = 0

\* startConsuming() has returned: keep_running_ is true and the thread runs
OwnInit ==
    /\ latest_samples_mutex_ = "none"
    /\ own_keep_running = TRUE
    /\ own_queue = << >>
    /\ own_loop_pc = "while"
    /\ own_stop_pc = "idle"
    /\ own_received = ""
    /\ own_window = {}
    /\ own_pushes = 0

\* a join() that does not wait for the thread
JoinReturnsAnyTime(pc) == TRUE

\* thread.join() returns once the thread function has returned
JoinReturns(pc) == pc = "exited"

\* the handler pushes a reading
OwnProducerPush ==
    /\ own_pushes < MaxOwnPushes
    /\ \E mac \in Macs : own_queue' = Append(own_queue, mac)
    /\ own_pushes' = own_pushes + 1
    /\ UNCHANGED << latest_samples_mutex_, own_keep_running, own_loop_pc, own_stop_pc, own_received, own_window >>
    /\ UNCHANGED << aggVars, scanVars, mqVars, decVars, serVars, mainVars, repVars, winVars, quiVars >>

\* while (keep_running_.load())
OwnLoopWhile ==
    /\ own_loop_pc = "while"
    /\ own_loop_pc' = IF own_keep_running THEN "pop" ELSE "exited"
    /\ UNCHANGED << latest_samples_mutex_, own_keep_running, own_queue, own_stop_pc, own_received, own_window, own_pushes >>
    /\ UNCHANGED << aggVars, scanVars, mqVars, decVars, serVars, mainVars, repVars, winVars, quiVars >>

\* queue_.pop(remaining_time): the front value, or nullopt at the timeout
OwnLoopPop ==
    /\ own_loop_pc = "pop"
    /\ IF own_queue # << >>
       THEN /\ own_received' = Head(own_queue)
            /\ own_queue' = Tail(own_queue)
            /\ own_loop_pc' = "got"
       ELSE /\ own_loop_pc' = "deadline"
            /\ UNCHANGED << own_received, own_queue >>
    /\ UNCHANGED << latest_samples_mutex_, own_keep_running, own_stop_pc, own_window, own_pushes >>
    /\ UNCHANGED << aggVars, scanVars, mqVars, decVars, serVars, mainVars, repVars, winVars, quiVars >>

\* the shutdown signal test: break, or go on to the upsert
OwnLoopGot ==
    /\ own_loop_pc = "got"
    /\ own_loop_pc' = IF ~own_keep_running /\ own_received = ""
                       THEN "exited" ELSE "upsert_lock"
    /\ UNCHANGED << latest_samples_mutex_, own_keep_running, own_queue, own_stop_pc, own_received, own_window, own_pushes >>
    /\ UNCHANGED << aggVars, scanVars, mqVars, decVars, serVars, mainVars, repVars, winVars, quiVars >>

\* std::lock_guard lock(latest_samples_mutex_) before the upsert
OwnLoopUpsertLock ==
    /\ own_loop_pc = "upsert_lock"
    /\ latest_samples_mutex_ = "none"
    /\ latest_samples_mutex_' = "loop"
    /\ own_loop_pc' = "upsert"
    /\ UNCHANGED << own_keep_running, own_queue, own_stop_pc, own_received, own_window, own_pushes >>
    /\ UNCHANGED << aggVars, scanVars, mqVars, decVars, serVars, mainVars, repVars, winVars, quiVars >>

\* latest_samples_in_window_[mac_address] = received_data; the guard ends
OwnLoopUpsert ==
    /\ own_loop_pc = "upsert"
    /\ own_window' = own_window \cup {own_received}
    /\ latest_samples_mutex_' = "none"
    /\ own_loop_pc' = "deadline"
    /\ UNCHANGED << own_keep_running, own_queue, own_stop_pc, own_received, own_pushes >>
    /\ UNCHANGED << aggVars, scanVars, mqVars, decVars, serVars, mainVars, repVars, winVars, quiVars >>

\* if (now - window_start_time_ >= logging_window_duration_)
OwnLoopDeadline ==
    /\ own_loop_pc = "deadline"
    /\ \E expired \in BOOLEAN :
          own_loop_pc' = IF expired THEN "flush_lock" ELSE "while"
    /\ UNCHANGED << latest_samples_mutex_, own_keep_running, own_queue, own_stop_pc, own_received, own_window, own_pushes >>
    /\ UNCHANGED << aggVars, scanVars, mqVars, decVars, serVars, mainVars, repVars, winVars, quiVars >>

\* std::lock_guard lock(latest_samples_mutex_) of the deadline path
OwnLoopFlushLock ==
    /\ own_loop_pc = "flush_lock"
    /\ latest_samples_mutex_ = "none"
    /\ latest_samples_mutex_' = "loop"
    /\ own_loop_pc' = "flush"
    /\ UNCHANGED << own_keep_running, own_queue, own_stop_pc, own_received, own_window, own_pushes >>
    /\ UNCHANGED << aggVars, scanVars, mqVars, decVars, serVars, mainVars, repVars, winVars, quiVars >>

\* the window is written when it is not empty and cleared; the guard ends
OwnLoopFlush ==
    /\ own_loop_pc = "flush"
    /\ own_window' = {}
    /\ latest_samples_mutex_' = "none"
    /\ own_loop_pc' = "while"
    /\ UNCHANGED << own_keep_running, own_queue, own_stop_pc, own_received, own_pushes >>
    /\ UNCHANGED << aggVars, scanVars, mqVars, decVars, serVars, mainVars, repVars, winVars, quiVars >>

\* stopConsuming(): the thread is joinable, keep_running_.store(false)
OwnStopCall ==
    /\ own_stop_pc = "idle"
    /\ own_keep_running' = FALSE
    /\ own_stop_pc' = "push"
    /\ UNCHANGED << latest_samples_mutex_, own_queue, own_loop_pc, own_received, own_window, own_pushes >>
    /\ UNCHANGED << aggVars, scanVars, mqVars, decVars, serVars, mainVars, repVars, winVars, quiVars >>

\* queue_.push(SensorData())
OwnStopPush ==
    /\ own_stop_pc = "push"
    /\ own_queue' = Append(own_queue, "")
    /\ own_stop_pc' = "join"
    /\ UNCHANGED << latest_samples_mutex_, own_keep_running, own_loop_pc, own_received, own_window, own_pushes >>
    /\ UNCHANGED << aggVars, scanVars, mqVars, decVars, serVars, mainVars, repVars, winVars, quiVars >>

\* processing_thread_.join()
OwnStopJoin ==
    /\ own_stop_pc = "join"
    /\ JoinReturns(own_loop_pc)
    /\ own_stop_pc' = "flush_lock"
    /\ UNCHANGED << latest_samples_mutex_, own_keep_running, own_queue, own_loop_pc, own_received, own_window, own_pushes >>
    /\ UNCHANGED << aggVars, scanVars, mqVars, decVars, serVars, mainVars, repVars, winVars, quiVars >>

\* std::lock_guard lock(latest_samples_mutex_) of the shutdown path
OwnStopFlushLock ==
    /\ own_stop_pc = "flush_lock"
    /\ latest_samples_mutex_ = "none"
    /\ latest_samples_mutex_' = "stop"
    /\ own_stop_pc' = "flush"
    /\ UNCHANGED << own_keep_running, own_queue, own_loop_pc, own_received, own_window, own_pushes >>
    /\ UNCHANGED << aggVars, scanVars, mqVars, decVars, serVars, mainVars, repVars, winVars, quiVars >>

\* the residual window is written and cleared; the guard ends at the return
OwnStopFlush ==
    /\ own_stop_pc = "flush"
    /\ own_window' = {}
    /\ latest_samples_mutex_' = "none"
    /\ own_stop_pc' = "returned"
    /\ UNCHANGED << own_keep_running, own_queue, own_loop_pc, own_received, own_pushes >>
    /\ UNCHANGED << aggVars, scanVars, mqVars, decVars, serVars, mainVars, repVars, winVars, quiVars >>

OwnNext ==
    \/ OwnProducerPush
    \/ OwnLoopWhile
    \/ OwnLoopPop
    \/ OwnLoopGot
    \/ OwnLoopUpsertLock
    \/ OwnLoopUpsert
    \/ OwnLoopDeadline
    \/ OwnLoopFlushLock
    \/ OwnLoopFlush
    \/ OwnStopCall
    \/ OwnStopPush
    \/ OwnStopJoin
    \/ OwnStopFlushLock
    \/ OwnStopFlush

(***************************************************************************)
(* The scan loop next to stopScan(), a frame being read in one step and     *)
(* each of its reports dispatched in a step of its own                      *)
(***************************************************************************)
\* frames the controller delivers in the run
MaxQuiFrames == 2

\* no scan loop is looked at in this detail
QuiIdle ==
    /\ qui_keep_running = FALSE
    /\ qui_dd = -1
    /\ qui_dev_open = FALSE
    /\ qui_pipe_bytes = 0
    /\ qui_scan_pc = "none"
    /\ qui_fds = {}
    /\ qui_left = 0
    /\ qui_stop_pc = "idle"
    /\ qui_frames = 0
    /\ qui_calls = 0
    /\ qui_late_calls = 0

\* the call of stopScan() has returned
StopScanReturned(pc) == pc = "returned"

\* init() has succeeded and the scan thread has entered startScan()
QuiInit ==
    /\ qui_keep_running = TRUE
    /\ qui_dd = Fd("hci")
    /\ qui_dev_open = TRUE
    /\ qui_pipe_bytes = 0
    /\ qui_scan_pc = "while"
    /\ qui_fds = {}
    /\ qui_left = 0
    /\ qui_stop_pc = "idle"
    /\ qui_frames = 0
    /\ qui_calls = 0
    /\ qui_late_calls = 0

\* while (keep_running_.load()) and if (dd_ < 0) break
QuiScanWhile ==
    /\ qui_scan_pc = "while"
    /\ qui_scan_pc' = IF qui_keep_running /\ qui_dd >= 0 THEN "select" ELSE "exited"
    /\ UNCHANGED << qui_keep_running, qui_dd, qui_dev_open, qui_pipe_bytes, qui_fds, qui_left, qui_stop_pc, qui_frames, qui_calls, qui_late_calls >>
    /\ UNCHANGED << aggVars, scanVars, mqVars, decVars, serVars, mainVars, repVars, winVars, ownVars >>

\* select(): EBADF on a closed descriptor, a timeout, or the readable descriptors
QuiSelect ==
    /\ qui_scan_pc = "select"
    /\ IF ~qui_dev_open
       THEN qui_scan_pc' = "exited" /\ qui_fds' = {}
       ELSE \E frame \in BOOLEAN :
               /\ frame => qui_frames < MaxQuiFrames
               /\ qui_fds' = (IF qui_pipe_bytes > 0 THEN {"pipe"} ELSE {})
                                \cup (IF frame THEN {"dev"} ELSE {})
               /\ qui_scan_pc' = IF qui_fds' = {} THEN "while" ELSE "woken"
    /\ UNCHANGED << qui_keep_running, qui_dd, qui_dev_open, qui_pipe_bytes, qui_left, qui_stop_pc, qui_frames, qui_calls, qui_late_calls >>
    /\ UNCHANGED << aggVars, scanVars, mqVars, decVars, serVars, mainVars, repVars, winVars, ownVars >>

\* if (FD_ISSET(pipefd_[0])) drain and break; if (FD_ISSET(dd_)) read
QuiWoken ==
    /\ qui_scan_pc = "woken"
    /\ IF "pipe" \in qui_fds
       THEN qui_pipe_bytes' = 0 /\ qui_scan_pc' = "exited"
       ELSE /\ qui_scan_pc' = IF "dev" \in qui_fds THEN "read" ELSE "while"
            /\ UNCHANGED qui_pipe_bytes
    /\ UNCHANGED << qui_keep_running, qui_dd, qui_dev_open, qui_fds, qui_left, qui_stop_pc, qui_frames, qui_calls, qui_late_calls >>
    /\ UNCHANGED << aggVars, scanVars, mqVars, decVars, serVars, mainVars, repVars, winVars, ownVars >>

\* read(dd_, buf): a frame with its reports, or EBADF once the descriptor is closed
QuiRead ==
    /\ qui_scan_pc = "read"
    /\ IF qui_dev_open
       THEN /\ \E n \in 0..MaxReports : qui_left' = n
            /\ qui_frames' = qui_frames + 1
            /\ qui_scan_pc' = "dispatch"
       ELSE /\ qui_scan_pc' = "exited"
            /\ UNCHANGED << qui_left, qui_frames >>
    /\ UNCHANGED << qui_keep_running, qui_dd, qui_dev_open, qui_pipe_bytes, qui_fds, qui_stop_pc, qui_calls, qui_late_calls >>
    /\ UNCHANGED << aggVars, scanVars, mqVars, decVars, serVars, mainVars, repVars, winVars, ownVars >>

\* for each report: the name pass, then handle() of the first handler that matches
QuiDispatch ==
    /\ qui_scan_pc = "dispatch"
    /\ IF qui_left = 0
       THEN /\ qui_scan_pc' = "while"
            /\ UNCHANGED << qui_left, qui_calls, qui_late_calls >>
       ELSE /\ qui_left' = qui_left - 1
            /\ \E name \in NameInputs :
                  IF DispatchFrom(RepHandlers, name, 1) # << >>
                  THEN /\ qui_calls' = qui_calls + 1
                       /\ qui_late_calls' = IF StopScanReturned(qui_stop_pc)
                                             THEN qui_late_calls + 1 ELSE qui_late_calls
                  ELSE UNCHANGED << qui_calls, qui_late_calls >>
            /\ UNCHANGED qui_scan_pc
    /\ UNCHANGED << qui_keep_running, qui_dd, qui_dev_open, qui_pipe_bytes, qui_fds, qui_stop_pc, qui_frames >>
    /\ UNCHANGED << aggVars, scanVars, mqVars, decVars, serVars, mainVars, repVars, winVars, ownVars >>

\* stopScan(): keep_running_.store(false)
QuiStopCall ==
    /\ qui_stop_pc = "idle"
    /\ qui_keep_running' = FALSE
    /\ qui_stop_pc' = "signal"
    /\ UNCHANGED << qui_dd, qui_dev_open, qui_pipe_bytes, qui_scan_pc, qui_fds, qui_left, qui_frames, qui_calls, qui_late_calls >>
    /\ UNCHANGED << aggVars, scanVars, mqVars, decVars, serVars, mainVars, repVars, winVars, ownVars >>

\* write(pipefd_[1], "x", 1)
QuiStopSignal ==
    /\ qui_stop_pc = "signal"
    /\ qui_pipe_bytes' = qui_pipe_bytes + 1
    /\ qui_stop_pc' = "cleanup"
    /\ UNCHANGED << qui_keep_running, qui_dd, qui_dev_open, qui_scan_pc, qui_fds, qui_left, qui_frames, qui_calls, qui_late_calls >>
    /\ UNCHANGED << aggVars, scanVars, mqVars, decVars, serVars, mainVars, repVars, winVars, ownVars >>

\* if (dd_ >= 0) { disable the scan; hci_close_dev(dd_); dd_ = -1; } and return
QuiStopCleanup ==
    /\ qui_stop_pc = "cleanup"
    /\ IF qui_dd >= 0
       THEN qui_dev_open' = FALSE /\ qui_dd' = -1
       ELSE UNCHANGED << qui_dev_open, qui_dd >>
    /\ qui_stop_pc' = "returned"
    /\ UNCHANGED << qui_keep_running, qui_pipe_bytes, qui_scan_pc, qui_fds, qui_left, qui_frames, qui_calls, qui_late_calls >>
    /\ UNCHANGED << aggVars, scanVars, mqVars, decVars, serVars, mainVars, repVars, winVars, ownVars >>

QuiNext ==
    \/ QuiScanWhile
    \/ QuiSelect
    \/ QuiWoken
    \/ QuiRead
    \/ QuiDispatch
    \/ QuiStopCall
    \/ QuiStopSignal
    \/ QuiStopCleanup

\* the parts that are checked on their own are not running
RestIdle == DecIdle /\ SerIdle /\ MainIdle /\ RepIdle /\ WinIdle /\ OwnIdle /\ QuiIdle

(***************************************************************************)
(* The aggregation pipeline                                                 *)
(***************************************************************************)
Init == AggInit /\ push_budget = MaxPush /\ sink_faulty = FALSE /\ track_checks = FALSE /\ ScanInit /\ frame_budget = MaxFrames /\ track_errors = FALSE /\ MqInit /\ RestIdle

Next ==
    \/ ProducerPush
    \/ Tick
    \/ \E a \in Aggs : startConsuming(a)
    \/ \E a \in Aggs : LoopStart(a)
    \/ \E a \in Aggs : LoopWhile(a)
    \/ \E a \in Aggs : LoopPop(a)
    \/ \E a \in Aggs : LoopGot(a)
    \/ \E a \in Aggs : LoopCheck(a)
    \/ \E a \in Aggs : StopCall(a)
    \/ StopPush
    \/ StopJoin
    \/ StopFlush
    \/ StopReturn

Spec == Init /\ [][Next]_vars

(***************************************************************************)
(* Fair scheduling: every thread that can take a step eventually takes it,  *)
(* and time passes.                                                         *)
(***************************************************************************)
Fairness ==
    /\ WF_vars(Tick)
    /\ \A a \in Aggs : WF_vars(LoopStart(a))
    /\ \A a \in Aggs : WF_vars(LoopWhile(a))
    /\ \A a \in Aggs : WF_vars(LoopPop(a))
    /\ \A a \in Aggs : WF_vars(LoopGot(a))
    /\ \A a \in Aggs : WF_vars(LoopCheck(a))
    /\ WF_vars(StopPush)
    /\ WF_vars(StopJoin)
    /\ WF_vars(StopFlush)
    /\ WF_vars(StopReturn)

LiveInit == AggInit /\ push_budget = MaxLivePush /\ sink_faulty = FALSE /\ track_checks = FALSE /\ ScanInit /\ frame_budget = MaxFrames /\ track_errors = FALSE /\ MqInit /\ RestIdle

FairSpec == LiveInit /\ [][Next]_vars /\ Fairness

ScanSpec == Init /\ [][ScanNext]_vars

\* the scan thread and the stopping thread are scheduled, select() times out
\* and wakes on a readable pipe; signals, errors and frames need not arrive
ScanFairness ==
    /\ WF_vars(ScanWhile)
    /\ WF_vars(ScanFdSet)
    /\ WF_vars(SelectTimeout)
    /\ WF_vars(ScanWoken)
    /\ WF_vars(ScanReadFrame \/ \E err \in {"EAGAIN", "EINTR", "EBADF", "EIO"} : ScanReadError(err))
    /\ WF_vars(\E ok \in BOOLEAN : StopScanSignal(ok))
    /\ WF_vars(StopScanCleanup)
    /\ WF_vars(DtorClosePipes)

\* the scanner with the smaller number of frames
ScanLiveInit ==
    AggInit /\ push_budget = MaxPush /\ sink_faulty = FALSE /\ track_checks = FALSE /\ ScanInit
    /\ frame_budget = MaxLiveFrames /\ track_errors = FALSE /\ MqInit /\ RestIdle

\* the scanner in a run that records the errno of failed calls
ScanErrInit ==
    AggInit /\ push_budget = MaxPush /\ sink_faulty = FALSE /\ track_checks = FALSE
    /\ ScanInit /\ frame_budget = MaxLiveFrames /\ track_errors = TRUE
    /\ MqInit /\ RestIdle

ScanErrSpec == ScanErrInit /\ [][ScanNext]_vars

\* the aggregators with sinks whose writes may fail
FaultyInit ==
    AggInit /\ push_budget = MaxPush /\ sink_faulty = TRUE /\ track_checks = FALSE /\ ScanInit
    /\ frame_budget = MaxFrames /\ track_errors = FALSE /\ MqInit /\ RestIdle

FaultySpec == FaultyInit /\ [][Next]_vars

\* the aggregators in a run that records the outcome of each deadline check
RollInit ==
    AggInit /\ push_budget = MaxLivePush /\ sink_faulty = FALSE /\ track_checks = TRUE
    /\ ScanInit /\ frame_budget = MaxFrames /\ track_errors = FALSE /\ MqInit /\ RestIdle

RollSpec == RollInit /\ [][Next]_vars

\* one call of a decoder on every advertisement of DecInit
DecStart ==
    AggInit /\ push_budget = MaxPush /\ sink_faulty = FALSE /\ track_checks = FALSE
    /\ ScanInit /\ frame_budget = MaxFrames /\ track_errors = FALSE /\ MqInit
    /\ DecInit /\ SerIdle /\ MainIdle /\ RepIdle /\ WinIdle /\ OwnIdle /\ QuiIdle

DecSpec == DecStart /\ [][DecNext]_vars

\* the calling thread runs
DecFairSpec == DecSpec /\ WF_vars(DecNext)

\* one serialization of every mapping of MapInputs, decoded by the receiver
SerStart ==
    AggInit /\ push_budget = MaxPush /\ sink_faulty = FALSE /\ track_checks = FALSE
    /\ ScanInit /\ frame_budget = MaxFrames /\ track_errors = FALSE /\ MqInit
    /\ DecIdle /\ SerInit /\ MainIdle /\ RepIdle /\ WinIdle /\ OwnIdle /\ QuiIdle

SerSpec == SerStart /\ [][SerNext]_vars

\* the report loop on every generated frame
RepStart ==
    AggInit /\ push_budget = MaxPush /\ sink_faulty = FALSE /\ track_checks = FALSE
    /\ ScanInit /\ frame_budget = MaxFrames /\ track_errors = FALSE /\ MqInit
    /\ DecIdle /\ SerIdle /\ MainIdle /\ RepInit /\ WinIdle /\ OwnIdle /\ QuiIdle

RepSpec == RepStart /\ [][RepNext]_vars

\* the pop timeout for every window duration
WinStart ==
    AggInit /\ push_budget = MaxPush /\ sink_faulty = FALSE /\ track_checks = FALSE
    /\ ScanInit /\ frame_budget = MaxFrames /\ track_errors = FALSE /\ MqInit
    /\ DecIdle /\ SerIdle /\ MainIdle /\ RepIdle /\ WinInit /\ OwnIdle /\ QuiIdle

WinSpec == WinStart /\ [][WinNext]_vars

\* one aggregator with its mutex, from startConsuming() to the return of stopConsuming()
OwnStart ==
    AggInit /\ push_budget = MaxPush /\ sink_faulty = FALSE /\ track_checks = FALSE
    /\ ScanInit /\ frame_budget = MaxFrames /\ track_errors = FALSE /\ MqInit
    /\ DecIdle /\ SerIdle /\ MainIdle /\ RepIdle /\ WinIdle /\ OwnInit /\ QuiIdle

OwnSpec == OwnStart /\ [][OwnNext]_vars

\* the scan loop and one call of stopScan(), from the entry of startScan() on
QuiStart ==
    AggInit /\ push_budget = MaxPush /\ sink_faulty = FALSE /\ track_checks = FALSE
    /\ ScanInit /\ frame_budget = MaxFrames /\ track_errors = FALSE /\ MqInit
    /\ DecIdle /\ SerIdle /\ MainIdle /\ RepIdle /\ WinIdle /\ OwnIdle /\ QuiInit

QuiSpec == QuiStart /\ [][QuiNext]_vars

\* main() from the installation of the handler on, with SIGINTs
MainSpec == Init /\ [][MainNext]_vars

MainFairSpec == MainSpec /\ MainFairness

MqSpec == Init /\ [][MqNext]_vars

\* the producer and the consumers are scheduled; a wake-up without a
\* notification, a timeout and a further call of pop need not happen
MqFairness ==
    /\ WF_vars(MqPush)
    /\ \A c \in Consumers : WF_vars(MqLock(c)) /\ WF_vars(MqTest(c))

MqFairSpec == Init /\ [][MqNext]_vars /\ MqFairness

ScanFairSpec == ScanLiveInit /\ [][ScanNext]_vars /\ ScanFairness

(***************************************************************************)
(* Properties of the aggregators                                            *)
(***************************************************************************)
UniqueKeys(m) == \A e1, e2 \in m : e1.key = e2.key => e1 = e2

\* the window holds, for every address, exactly the reading popped last
WindowIsLatest(a) ==
    \A k \in Keys :
        { e \in latest_samples_in_window_[a] : e.key = k } =
            IF lastPopped[a][k] = NoReading THEN {}
            ELSE { [key |-> k, value |-> lastPopped[a][k]] }

BlobUniqueEntries(b) ==
    /\ b.count = Len(b.entries)
    /\ \A i, j \in 1..Len(b.entries) : b.entries[i].mac = b.entries[j].mac => i = j

\* the blob that holds one entry per address popped, in key order
RECURSIVE LatestEntries(_, _)
LatestEntries(lp, i) ==
    IF i > Len(KeyOrder) THEN << >>
    ELSE (IF lp[KeyOrder[i]] = NoReading THEN << >>
          ELSE << [mac |-> MacBytes(KeyOrder[i]),
                   temperature |-> lp[KeyOrder[i]].temperature] >>)
         \o LatestEntries(lp, i + 1)

\* C1: window upsert law. In every state a window holds at most one Reading
\* per address and it is the last one popped for that address in the window;
\* every blob written holds exactly one entry per address popped in that
\* window, equal to the last Reading popped for it.
C1_WindowUpsertLaw ==
    /\ [](\A a \in Aggs : /\ UniqueKeys(latest_samples_in_window_[a])
                          /\ WindowIsLatest(a)
                          /\ BlobUniqueEntries(sink[a]))
    /\ [][\A a \in Aggs :
            sink'[a] # sink[a] =>
                sink'[a].entries = LatestEntries(lastPopped[a], 1)]_vars

\* two Readings of one address were popped by the only running aggregator in
\* its first window, and the window holds the second
C1_Witness ==
    \E a \in Aggs : \E k \in Macs :
        /\ \A b \in Aggs \ {a} : ~started[b]
        /\ pushed = 2 /\ lastPushed[k] = 2
        /\ \A k2 \in Macs \ {k} : lastPushed[k2] = 0
        /\ queue_ = << >> /\ loop_pc[a] \in {"check", "while", "pop"}
        /\ sink[a] = NoBlob
        /\ latest_samples_in_window_[a] = { [key |-> k, value |-> MkSensorData(k, 2)] }

C3_NoDataDropped ==
    (ctl_pc = "returned" /\ stopSnap.active) =>
        \A k \in Macs : written[k] >= stopSnap.owed[k]

\* C4: the shutdown sentinel is never treated as data. No window holds the
\* default-constructed Reading and no blob holds an entry made from it.
C4_SentinelNeverData ==
    \A a \in Aggs :
        /\ \A e \in latest_samples_in_window_[a] : e.value # DefaultSensorData
        /\ \A i \in 1..Len(sink[a].entries) :
              sink[a].entries[i] # SerializeEntry(DefaultSensorData)

\* C5: aggregator shutdown terminates. Once stopConsuming() is past its
\* joinable() test, it eventually returns.
C5_StopTerminates ==
    (ctl_pc \in {"push", "join", "flush"}) ~> (ctl_pc = "returned")

\* stopConsuming() returned on an aggregator whose sentinel was popped by the
\* other, still running, aggregator
C5_Witness ==
    /\ ctl_pc = "returned" /\ stopSnap.active
    /\ \E b \in Aggs \ {ctl_agg} :
          /\ keep_running_[b] /\ LoopRunning(b)
          /\ \E e \in latest_samples_in_window_[b] : e.value = DefaultSensorData

\* C9: stopConsuming() is idempotent. A call on an aggregator whose thread is
\* not joinable (already stopped, or never started) returns at once: it pushes
\* nothing, joins nothing, writes nothing and leaves the window as it is.
C9_StopIdempotent ==
    [][(ctl_pc = "idle" /\ ctl_pc' # "idle" /\ ~joinable[ctl_agg']) =>
          /\ ctl_pc' = "returned"
          /\ UNCHANGED << queue_, sink, latest_samples_in_window_, joinable,
                          keep_running_, loop_pc, written >>]_vars

\* a second stopConsuming() call has returned on an aggregator that was
\* started and stopped before
C9_Witness ==
    /\ ctl_pc = "returned" /\ ~stopSnap.active
    /\ started[ctl_agg] /\ ~joinable[ctl_agg] /\ ~keep_running_[ctl_agg]

\* C6: scan cancellation is live: once stopScan() has cleared the running flag
\* while the scan loop is running, the scan loop eventually leaves its loop,
\* whether or not the pipe write succeeded and with no advertisement needed.
C6_ScanCancellationLive ==
    (~scan_keep_running_ /\ InLoop(scan_pc)) ~> ~InLoop(scan_pc)

\* C6 witness: stopScan() was called with the loop in select(), its pipe write
\* failed, no advertisement arrived, and the loop has exited.
C6_Witness ==
    /\ scan_pc = "exited"
    /\ scanStops >= 1
    /\ frames = 0
    /\ pipe_bytes = 0
    /\ closes = 1

\* C7: stopScan() orders device teardown after loop exit: stopScan() closes the
\* controller descriptor only once the loop thread has left its loop, so in
\* every interleaving the loop thread is never inside select() or read() while
\* the controller descriptor is closed.
C7_TeardownAfterLoopExit ==
    scan_pc \in {"select", "read"} => dev_open

Matching(name) ==
    { i \in 1..Len(device_handlers_) : canHandle(device_handlers_[i], name) }

\* C10: at-most-one dispatch: for every report of the last frame at most one
\* handler's handle() ran, and when some handler accepts the name it is the
\* first such handler in registration order.
C10_AtMostOneDispatch ==
    Len(invoked) = Len(last_frame) =>
        \A r \in 1..Len(last_frame) :
            /\ Len(invoked[r]) <= 1
            /\ Matching(last_frame[r]) # {} =>
                  /\ Len(invoked[r]) = 1
                  /\ invoked[r][1] \in Matching(last_frame[r])
                  /\ \A i \in Matching(last_frame[r]) : invoked[r][1] <= i
            /\ Matching(last_frame[r]) = {} => invoked[r] = << >>

\* C10 witness: a report whose name two registered handlers accept was
\* dispatched to the first of them, and a report that only the second
\* handler accepts went to the second.
C10_Witness ==
    /\ Len(last_frame) = 2
    /\ Len(invoked) = 2
    /\ Cardinality(Matching(last_frame[1])) = 2
    /\ invoked[1] = << 1 >>
    /\ invoked[2] = << 2 >>

\* C11: a report whose name no registered handler accepts (also with no handler
\* registered) runs no handler and raises no error: every report of a
\* dispatched frame is visited, the later ones included, and after the frame
\* the scan loop is back at its loop test.
C11_UnhandledReportDropped ==
    /\ [](frame_outcome = "dispatched" =>
             /\ Len(invoked) = Len(last_frame)
             /\ \A r \in 1..Len(last_frame) :
                   (\A i \in 1..Len(device_handlers_) :
                        ~canHandle(device_handlers_[i], last_frame[r]))
                   => invoked[r] = << >>)
    /\ [][frames' = frames + 1 => scan_pc' = "while"]_vars

\* C11 witness: the first report of a frame matched no handler, the second was
\* handled, and this was the second frame the loop read.
C11_Witness ==
    /\ frames = 2
    /\ frame_outcome = "dispatched"
    /\ Len(last_frame) = 2
    /\ Len(invoked) = 2
    /\ Len(device_handlers_) >= 1
    /\ invoked[1] = << >>
    /\ invoked[2] # << >>

\* C20: frame validation: a frame leads to a dispatch only if at least 3 bytes
\* were read, its packet type is 'event' and its declared event length equals
\* the bytes read minus 3; any other frame is discarded with no handler run,
\* and the scan loop continues at its loop test.
C20_FrameValidation ==
    /\ [](frames > 0 =>
             LET ok == /\ last_hdr.len >= 3
                       /\ last_hdr.packet_type = "HCI_EVENT_PKT"
                       /\ last_hdr.event_len = last_hdr.len - 3
             IN  /\ frame_outcome = "dispatched" => ok
                 /\ ~ok => frame_outcome = "discarded" /\ invoked = << >>)
    /\ [][frames' = frames + 1 /\ frame_outcome' = "discarded" => scan_pc' = "while"]_vars

\* C20 witness: an event frame of sufficient length whose declared length
\* differs from the bytes read was discarded and the loop went on.
C20_Witness ==
    /\ frame_outcome = "discarded"
    /\ last_hdr.len >= 3
    /\ last_hdr.packet_type = "HCI_EVENT_PKT"
    /\ last_hdr.event_len # last_hdr.len - 3
    /\ last_hdr.event_code = "EVT_LE_META"
    /\ last_hdr.subevent = "EVT_LE_ADVERTISING_REPORT"
    /\ Len(device_handlers_) >= 1
    /\ scan_pc = "select"

\* C19: init() is all-or-nothing: after init() has returned false, whichever
\* step failed, the controller descriptor is closed and -1 and both pipe ends
\* are closed and -1, and a following startScan() returns without scanning.
C19_InitAllOrNothing ==
    init_result = "false" =>
        /\ dd_ = -1 /\ ~dev_open
        /\ pipefd_ = << -1, -1 >> /\ ~pipe_open
        /\ scan_pc \in {"none", "returned"}

\* C19 witness: init() failed and the scan thread's startScan() has returned.
C19_Witness ==
    /\ init_result = "false"
    /\ scan_pc = "returned"
    /\ frames = 0

\* the items a consumer got, in the order it got them
ItemsOf(c) == SelectSeq(mq_ret[c], LAMBDA x : x # 0)

\* a pop call of consumer c returns in this step
Returns(c) == Len(mq_ret'[c]) = Len(mq_ret[c]) + 1

\* C12: queue FIFO: the items returned to any single consumer appear in the
\* order in which they were pushed, and when only one consumer pops, the
\* sequence it gets is the sequence pushed, with no item skipped.
C12_QueueFIFO ==
    \A c \in Consumers :
        /\ \A i, j \in 1..Len(ItemsOf(c)) : i < j => ItemsOf(c)[i] < ItemsOf(c)[j]
        /\ (\A d \in Consumers \ {c} : ItemsOf(d) = << >>)
           => ItemsOf(c) = [i \in 1..Len(ItemsOf(c)) |-> i]

\* C12 witness: three items were pushed; one consumer got the first and the
\* third, the other one the second.
C12_Witness ==
    /\ ItemsOf("c1") = << 1, 3 >>
    /\ ItemsOf("c2") = << 2 >>

\* C13: pop(timeout) returns the front item whenever the queue is non-empty at
\* the moment it holds the lock after waking or timing out, returns no value
\* only when the queue is empty at that moment, and then removes nothing.
C13_TimedPop ==
    [][\A c \in Consumers :
          (Returns(c) /\ mq_mode[c] = "timed") =>
             IF mq_queue # << >>
             THEN /\ mq_ret'[c][Len(mq_ret'[c])] = Head(mq_queue)
                  /\ mq_queue' = Tail(mq_queue)
             ELSE /\ mq_ret'[c][Len(mq_ret'[c])] = 0
                  /\ mq_queue' = mq_queue]_vars

\* C13 witness: a pop(timeout) whose timeout had elapsed found the queue
\* non-empty when it held the lock again and returned the item, after an
\* earlier call had returned no value.
C13_Witness ==
    /\ mq_mode["c1"] = "timed"
    /\ mq_wake["c1"] = "timeout"
    /\ mq_pc["c1"] = "idle"
    /\ mq_ret["c1"] = << 0, 1 >>

\* C14: push() never waits for room and always enqueues its item at the back;
\* every item pushed is in the queue or was returned to exactly one consumer;
\* and a consumer blocked in pop does not stay blocked while the queue stays
\* non-empty: a push wakes one of the blocked consumers.
C14_PushWakesOne ==
    /\ [][mq_pushed' # mq_pushed =>
             /\ mq_pushed' = mq_pushed + 1
             /\ mq_queue' = Append(mq_queue, mq_pushed')]_vars
    /\ [](mq_prod = "locked" => ENABLED MqPush)
    /\ [](\A item \in 1..mq_pushed :
             Cardinality({ i \in 1..Len(mq_queue) : mq_queue[i] = item })
             + Cardinality({ << c, i >> \in Consumers \X (1..MaxPops) :
                                i <= Len(mq_ret[c]) /\ mq_ret[c][i] = item }) = 1)
    /\ \A c \in Consumers :
          (mq_pc[c] = "waiting" /\ mq_queue # << >>)
             ~> (mq_pc[c] # "waiting" \/ mq_queue = << >>)

\* C14 witness: with both consumers blocked in the untimed pop one item was
\* pushed; the notified consumer returned with it and the other is still blocked.
C14_Witness ==
    /\ mq_pushed = 1
    /\ mq_ret["c1"] = << 1 >>
    /\ mq_wake["c1"] = "notify"
    /\ mq_mode["c2"] = "pop"
    /\ mq_pc["c2"] = "waiting"
    /\ mq_wake["c2"] = "none"
    /\ mq_queue = << >>

\* C15: the untimed pop() returns only when an item exists: it never returns
\* no value, and each return removes exactly the front item of the queue.
C15_UntimedPop ==
    [][\A c \in Consumers :
          (Returns(c) /\ mq_mode[c] = "pop") =>
             /\ mq_queue # << >>
             /\ mq_ret'[c][Len(mq_ret'[c])] = Head(mq_queue)
             /\ mq_ret'[c][Len(mq_ret'[c])] # 0
             /\ mq_queue' = Tail(mq_queue)]_vars

\* C15 witness: the only consumer that popped got both items from the untimed
\* pop(), the second after a wake-up without a notification.
C15_Witness ==
    /\ mq_mode["c1"] = "pop"
    /\ mq_pc["c1"] = "idle"
    /\ mq_ret["c1"] = << 1, 2 >>
    /\ mq_wake["c1"] = "spurious"
    /\ mq_ret["c2"] = << >>

\* a step in which the loop of aggregator a makes its window expiration check
LoopChecks(a) == loop_pc[a] = "check" /\ loop_pc'[a] = "while"

C17_EmptyWindowRolls ==
    [][\A a \in Aggs :
          (/\ LoopChecks(a)
           /\ elapsed_in_window[a] >= WindowTicks
           /\ latest_samples_in_window_[a] = {})
             => /\ attempts'[a] = attempts[a]
                /\ sink'[a] = sink[a]
                /\ latest_samples_in_window_'[a] = {}
                /\ elapsed_in_window'[a] = 0]_vars

\* C17 witness: the last deadline check of the RestApiConsumer found an empty
\* mapping; nothing was ever written to its sink and its new window has begun.
C17_Witness ==
    /\ last_check["rest"] = "empty"
    /\ loop_pc["rest"] = "while"
    /\ attempts["rest"] = 0
    /\ sink["rest"] = NoBlob
    /\ elapsed_in_window["rest"] = 0

\* C18: a sink write that fails does not stop the aggregator: the window is
\* emptied as after a success, so the same readings are not handed to the
\* sink again, the sink keeps what it had, and a running loop goes back to the
\* head of its loop with a new window.
C18_FailedWriteNoRetry ==
    [][\A a \in Aggs :
          (attempts'[a] = attempts[a] + 1 /\ ~last_ok'[a])
             => /\ latest_samples_in_window_'[a] = {}
                /\ sink'[a] = sink[a]
                /\ written' = written
                /\ LoopRunning(a) => /\ loop_pc'[a] = "while"
                                      /\ elapsed_in_window'[a] = 0]_vars

\* C18 witness: the DataProcessor alone consumed two readings of different
\* devices; its first write failed (that reading reached no sink), and the
\* write of the next window was made and succeeded with the other reading only.
C18_Witness ==
    /\ ~started["rest"]
    /\ attempts["dp"] = 2
    /\ last_ok["dp"]
    /\ sink["dp"].count = 1
    /\ LoopRunning("dp")
    /\ \E k \in Macs : lastPushed[k] > 0 /\ written[k] = 0

\* C21: cancellation has priority over data. When select() reports the
\* cancellation pipe readable, also together with the controller socket, the
\* loop drains the pipe and exits; it makes no read on the controller socket
\* and dispatches nothing in that wake-up.
C21_CancellationFirst ==
    /\ [][(scan_pc = "woken" /\ "pipe" \in sel_ready /\ scan_pc' # scan_pc)
             => /\ scan_pc' = "exited"
                /\ pipe_bytes' = 0
                /\ frames' = frames
                /\ invoked' = invoked
                /\ last_frame' = last_frame]_vars
    /\ [](scan_pc = "read" => "pipe" \notin sel_ready)

\* C21 witness: select() reported the pipe and the controller socket readable
\* in one wake-up; the loop has drained the pipe and left, and no frame was
\* ever read.
C21_Witness ==
    /\ scan_pc = "exited"
    /\ sel_ready = {"pipe", "dev"}
    /\ pipe_bytes = 0
    /\ frames = 0
    /\ invoked = << >>

\* number of leading records of recs that lie wholly inside the first len bytes
RECURSIVE WholeCount(_, _)
WholeCount(recs, len) ==
    IF Len(recs) = 0 \/ Len(EncodeRecord(Head(recs))) > len THEN 0
    ELSE 1 + WholeCount(Tail(recs), len - Len(EncodeRecord(Head(recs))))

\* the records of the advertisement that lie wholly inside the payload
WholeRecords == SubSeq(dec_recs, 1, WholeCount(dec_recs, dec_len))

\* the payload ends inside a record: its declared length reaches past the end
CutInsideRecord ==
    /\ dec_len < Len(EncodeRecords(dec_recs))
    /\ dec_len # Len(EncodeRecords(WholeRecords))

\* payload of the last name record of recs, empty when there is none
LastNameOf(recs) ==
    LET idx == { i \in 1..Len(recs) : recs[i].type \in {8, 9} }
    IN  IF idx = {} THEN << >>
        ELSE recs[CHOOSE i \in idx : \A j \in idx : j <= i].payload

\* the manufacturer-specific records of recs with at least four payload bytes
SensorIndexes(recs) ==
    { i \in 1..Len(recs) : recs[i].type = 255 /\ Len(recs[i].payload) >= 4 }

\* payload of the last such record
LastSensorOf(recs) ==
    recs[CHOOSE i \in SensorIndexes(recs) : \A j \in SensorIndexes(recs) : j <= i].payload

\* C22: when the declared length of a record reaches past the end of the
\* payload, a decoder stops at that record: it has read no byte at an index
\* >= len and returns what the records before it hold.
C22_TruncationSafe ==
    (dec_pc = "done" /\ CutInsideRecord)
       => /\ dec_maxread < dec_len
          /\ device_name_out = LastNameOf(WholeRecords)
          /\ (dec_kind = "tp357" /\ SensorIndexes(WholeRecords) = {})
                => /\ temperature_out = InvalidTemperature
                   /\ humidity_out = InvalidHumidity

\* C25: for a manufacturer-specific record with payload bytes b0..b3 the
\* sensor decoder returns, in tenths of a degree, the 16-bit two's-complement
\* value of b1 + 256*b2 (negative when b2 >= 128), and b3 as the humidity.
C25_ManufacturerDecode ==
    (/\ dec_pc = "done" /\ dec_kind = "tp357"
     /\ ~CutInsideRecord
     /\ SensorIndexes(WholeRecords) # {})
       => LET b == LastSensorOf(WholeRecords)
          IN  /\ temperature_out = IF b[3] >= 128 THEN b[2] + 256 * b[3] - 65536
                                                   ELSE b[2] + 256 * b[3]
              /\ humidity_out = b[4]
              /\ humidity_out \in 0..255

\* C25 witness: the bytes FF FF gave -0.1 degrees and the byte 64 gave 100 %.
C25_Witness ==
    /\ dec_pc = "done" /\ dec_kind = "tp357"
    /\ dec_recs = << Record(255, << 194, 255, 255, 100 >>) >>
    /\ dec_len = Len(dec_data)
    /\ temperature_out = -1
    /\ humidity_out = 100

\* C26: absent is never zero. A payload of whole records with no
\* manufacturer-specific record, or only such records with fewer than four
\* payload bytes, leaves temperature and humidity at the invalid value -999,
\* not 0, and the name is still decoded.
C26_AbsentIsInvalid ==
    (/\ dec_pc = "done" /\ dec_kind = "tp357"
     /\ ~CutInsideRecord
     /\ SensorIndexes(WholeRecords) = {})
       => /\ temperature_out = InvalidTemperature
          /\ humidity_out = InvalidHumidity
          /\ temperature_out # 0 /\ humidity_out # 0
          /\ device_name_out = LastNameOf(WholeRecords)

\* C26 witness: a name record and a manufacturer-specific record of three
\* payload bytes were decoded: the name is there, both values are invalid.
C26_Witness ==
    /\ dec_pc = "done" /\ dec_kind = "tp357"
    /\ dec_recs = << Record(9, << 65 >>), Record(255, << 194, 1, 210 >>) >>
    /\ dec_len = Len(dec_data)
    /\ device_name_out = << 65 >>
    /\ temperature_out = InvalidTemperature
    /\ humidity_out = InvalidHumidity

\* C29: the TLV walk. The decoder reads the length byte L at the offset; with
\* L = 0 it stops and what it has decoded stays; otherwise the next byte is
\* the type, the L-1 bytes after it are the payload (the name, for a name
\* type) and the offset moves on by L+1. Every call comes to its end.
C29_TlvWalk ==
    /\ [][(dec_pc = "loop" /\ offset < dec_len /\ dec_offsets' # dec_offsets)
             => LET L == Mem(dec_data, dec_stale, offset)
                    type == Mem(dec_data, dec_stale, offset + 1)
                IN  IF L = 0
                    THEN /\ dec_pc' = "done"
                         /\ device_name_out' = device_name_out
                         /\ temperature_out' = temperature_out
                         /\ humidity_out' = humidity_out
                    ELSE /\ offset' = offset + L + 1
                         /\ dec_pc' = "loop"
                         /\ type \in {8, 9} =>
                               device_name_out' =
                                  [i \in 1..(L - 1) |-> Mem(dec_data, dec_stale, offset + 1 + i)]
                         /\ type \notin {8, 9} => device_name_out' = device_name_out]_vars
    /\ [](dec_pc = "done" => [](dec_pc = "done"))
    /\ (dec_pc = "loop") ~> (dec_pc = "done")

\* C29 witness: two records were walked and the walk stopped at an
\* end-of-data byte; the name record behind that byte was not decoded.
C29_Witness ==
    /\ dec_pc = "done"
    /\ Len(dec_recs) = 2
    /\ dec_offsets = << 0, Len(EncodeRecord(dec_recs[1])), Len(EncodeRecords(dec_recs)) >>
    /\ dec_len = Len(dec_data)
    /\ Mem(dec_data, dec_stale, dec_offsets[3]) = 0
    /\ device_name_out = << 66, 67 >>

\* C30: last name wins. Of several records of type complete or shortened
\* local name the decoded name is the payload of the last one; with no such
\* record the name is empty, whatever the string held before the call.
C30_LastNameWins ==
    (dec_pc = "done" /\ ~CutInsideRecord)
       => device_name_out = LastNameOf(WholeRecords)

\* C30 witness: a complete name and then a shortened name were decoded by the
\* name pass into a string that held something else; the shortened name is
\* the result.
C30_Witness ==
    /\ dec_pc = "done" /\ dec_kind = "general"
    /\ dec_recs = << Record(9, << 65 >>), Record(8, << 66, 67 >>) >>
    /\ dec_len = Len(dec_data)
    /\ device_name_out = << 66, 67 >>

\* the address of every entry has the form of six two-digit hex groups
WellFormedAddresses(m) ==
    \A i \in 1..Len(m) :
       /\ Len(m[i].mac_address) = 17
       /\ \A k \in 0..5 : /\ IsHex(m[i].mac_address[3 * k + 1])
                          /\ IsHex(m[i].mac_address[3 * k + 2])
                          /\ k < 5 => m[i].mac_address[3 * k + 3] = ":"

\* C23: serialization size law. For every mapping of n <= 255 entries the
\* blob has exactly 1 + 23 * n bytes and its first byte is n.
C23_SizeLaw ==
    (ser_pc # "idle" /\ Len(ser_map) <= 255)
       => /\ Len(ser_blob) = 1 + 23 * Len(ser_map)
          /\ ser_blob[1] = Len(ser_map)

\* C23 witness: a mapping of 255 entries was serialized into 5866 bytes.
C23_Witness ==
    /\ ser_pc = "serialized"
    /\ Len(ser_map) = 255
    /\ Len(ser_blob) = 5866
    /\ ser_blob[1] = 255

\* C24: round trip with the receiving decoder. For a mapping of 1 to 255
\* entries with well-formed addresses, decodeSensorDataBlob of the blob gives
\* the entries in iteration order, each with the same six address bytes,
\* temperature bytes, humidity bytes and signed RSSI, and reads the whole blob.
C24_RoundTrip ==
    (/\ ser_pc = "decoded"
     /\ Len(ser_map) \in 1..255
     /\ WellFormedAddresses(ser_map))
       => /\ Len(ser_decoded.entries) = Len(ser_map)
          /\ ser_decoded.offset = Len(ser_blob)
          /\ \A i \in 1..Len(ser_map) :
                LET d == ser_map[i]
                    e == ser_decoded.entries[i]
                IN  /\ \A k \in 1..6 :
                          16 * HexVal(e.mac_address[3 * k - 2]) + HexVal(e.mac_address[3 * k - 1])
                             = 16 * HexVal(d.mac_address[3 * k - 2]) + HexVal(d.mac_address[3 * k - 1])
                    /\ e.temperature = d.temperature
                    /\ e.humidity = d.humidity
                    /\ e.rssi = d.rssi

\* C24 witness: two entries, one with a lower-case address and RSSI -128, one
\* with RSSI 127, came back from the decoder in map order.
C24_Witness ==
    /\ ser_pc = "decoded"
    /\ Len(ser_map) = 2
    /\ ser_map[1].mac_address = Chars("F8:5F:2B:62:E5:F5")
    /\ ser_map[2].mac_address = Chars("e2:76:f5:4b:e4:f0")
    /\ ser_map[1].rssi = 127 /\ ser_map[2].rssi = -128
    /\ Len(ser_decoded.entries) = 2
    /\ ser_decoded.entries[2].mac_address = Chars("E2:76:F5:4B:E4:F0")
    /\ ser_decoded.entries[2].rssi = -128

\* C27: scan loop failure semantics. A select() or read() that fails with
\* EINTR, or a read() that fails with EAGAIN, leaves the loop running: it goes
\* back to the test of the running flag. A failure with EBADF makes the loop
\* end. No failure of select() or read() reads a frame or runs a handler.
C27_ScanFailureSemantics ==
    [][/\ \A err \in {"EINTR", "EBADF", "EINVAL"} :
            SelectError(err) =>
               /\ err = "EINTR" => scan_pc' = "while"
               /\ err = "EBADF" => scan_pc' = "exited"
               /\ frames' = frames /\ invoked' = invoked /\ last_frame' = last_frame
               /\ frame_outcome' = frame_outcome
       /\ \A err \in {"EAGAIN", "EINTR", "EBADF", "EIO"} :
            ScanReadError(err) =>
               /\ err \in {"EAGAIN", "EINTR"} => scan_pc' = "while"
               /\ err = "EBADF" => scan_pc' = "exited"
               /\ frames' = frames /\ invoked' = invoked /\ last_frame' = last_frame
               /\ frame_outcome' = frame_outcome]_vars

\* C27 witness: a read() failed with EAGAIN before any frame was read; the
\* loop went on, read and dispatched a frame, and is at its head again.
C27_Witness ==
    /\ last_error = "EAGAIN"
    /\ scan_pc = "while"
    /\ frames = 1
    /\ frame_outcome = "dispatched"
    /\ scan_keep_running_

\* C28: shutdown from the signal handler completes. For a SIGINT delivered at
\* any point of main() after the handler is installed, also while main()
\* holds the consumers mutex, signal_handler acquires the mutex and returns,
\* and main() reaches its exit with the scan thread joined and no consumer
\* running.
C28_SignalShutdownCompletes ==
    /\ [](sig_pc = "lock" => <>(sig_pc = "loop"))
    /\ [](sig_pc = "lock" => <>(sig_pc = "returned"))
    /\ [](sig_count > 0 =>
            <>(/\ main_pc = "exit"
               /\ scanner_thread = "exited"
               /\ \A i \in 1..Len(g_consumers) : g_consumers[i] # "running"))

\* whether an address is six groups of two hex digits separated by colons
AddressParses(s) ==
    /\ Len(s) = 17
    /\ \A k \in 0..5 : /\ IsHex(s[3 * k + 1]) /\ IsHex(s[3 * k + 2])
                       /\ k < 5 => s[3 * k + 3] = ":"

\* the 23 bytes of the blob at the position of entry i of the mapping
BlobSlot(i) == SubSeq(ser_blob, 2 + 23 * (i - 1), 1 + 23 * i)

\* C31: serializer tolerance of a bad address. An entry whose address does
\* not parse as six colon-separated hex bytes still contributes exactly 23
\* bytes whose first six are zero, and every other entry of the mapping is
\* serialized unchanged and in the same position.
C31_BadAddressTolerated ==
    (ser_pc # "idle" /\ Len(ser_map) <= 255)
       => /\ Len(ser_blob) = 1 + 23 * Len(ser_map)
          /\ \A i \in 1..Len(ser_map) :
                LET d == ser_map[i]
                    b == BlobSlot(i)
                IN  /\ ~AddressParses(d.mac_address)
                          => \A k \in 1..6 : b[k] = 0
                    /\ AddressParses(d.mac_address)
                          => \A k \in 1..6 :
                                b[k] = 16 * HexVal(d.mac_address[3 * k - 2])
                                          + HexVal(d.mac_address[3 * k - 1])
                    /\ SubSeq(b, 7, 14) = d.temperature
                    /\ SubSeq(b, 15, 22) = d.humidity
                    /\ b[23] = d.rssi % 256

\* C31 witness: a mapping whose first entry has the cut address E2:76:F5 and
\* whose second entry has a whole address was serialized into 47 bytes; the
\* first slot starts with six zero bytes, the second with E2 76 F5 4B E4 F0.
C31_Witness ==
    /\ ser_pc = "serialized"
    /\ Len(ser_map) = 2
    /\ ser_map[1].mac_address = Chars("E2:76:F5")
    /\ ser_map[2].mac_address = Chars("E2:76:F5:4B:E4:F0")
    /\ Len(ser_blob) = 47
    /\ SubSeq(ser_blob, 2, 7) = << 0, 0, 0, 0, 0, 0 >>
    /\ SubSeq(ser_blob, 25, 30) = << 226, 118, 245, 75, 228, 240 >>

\* the frame in buf is the advertising-report event of the reports it was
\* built from: right count, right lengths, nothing missing
WellFormedBuf ==
    /\ rep_declared = Len(rep_reports)
    /\ buf = EventFrame(EVT_LE_META,
                        << EVT_LE_ADVERTISING_REPORT, Len(rep_reports) >>
                           \o ReportsBytes(rep_reports))

\* where report i of the list starts in a well-formed frame: behind packet
\* type, event header, subevent and count, and behind the reports before it
RECURSIVE ReportStart(_, _)
ReportStart(rs, i) ==
    IF i = 1 THEN 5 ELSE ReportStart(rs, i - 1) + 9 + Len(rs[i - 1].data) + 1

\* C32: report iteration. For a validated advertising-report frame declaring
\* k reports the loop considers exactly k reports in order of appearance,
\* passes on each report's address, its payload of the declared length and as
\* RSSI the byte right after the payload, and finds report i+1 at the start
\* of report i plus the report header size plus the declared length plus 1.
C32_ReportIteration ==
    (WellFormedBuf /\ rep_pc # "idle")
       => /\ Len(rep_calls) = rep_i
          /\ rep_i <= Len(rep_reports)
          /\ rep_pc = "done" => rep_i = Len(rep_reports)
          /\ \A i \in 1..Len(rep_calls) :
                LET c == rep_calls[i]
                    r == rep_reports[i]
                IN  /\ c.start = ReportStart(rep_reports, i)
                    /\ i > 1 => c.start = rep_calls[i - 1].start + 9
                                             + Len(rep_reports[i - 1].data) + 1
                    /\ Len(c.addr) = 17
                    /\ \A k \in 1..6 :
                          16 * HexVal(c.addr[3 * k - 2]) + HexVal(c.addr[3 * k - 1])
                             = r.bdaddr[7 - k]
                    /\ c.length = Len(r.data)
                    /\ c.data = r.data
                    /\ c.handled
                          => c.rssi = IF r.rssi >= 128 THEN r.rssi - 256 ELSE r.rssi

\* C32 witness: a frame of two reports was walked to its end; the second
\* report, found at index 22, carried the name TP357 and RSSI byte C4, and
\* its handler got the address E2:76:F5:4B:E4:F0 and the RSSI -60.
C32_Witness ==
    /\ WellFormedBuf
    /\ rep_pc = "done"
    /\ Len(rep_calls) = 2
    /\ rep_calls[1].start = 5
    /\ rep_calls[1].length = 7
    /\ rep_calls[2].start = 22
    /\ rep_calls[2].handled
    /\ rep_calls[2].addr = Chars("E2:76:F5:4B:E4:F0")
    /\ rep_calls[2].rssi = -60

\* C33: report iteration stays inside the frame. For every frame that passes
\* validation, every byte the report loop reads (subevent, report count, each
\* report's address, declared length, payload and RSSI byte) lies within the
\* bytes read for that frame.
C33_ReadsInsideFrame ==
    BufValid => rep_maxread < Len(buf)

\* C34: sentinel exit rule. A popped Reading makes the consumer loop exit
\* without an upsert if and only if shutdown has been requested and its
\* address, label and decoded name are all empty; every other popped Reading,
\* also one with an address popped after shutdown was requested, is upserted
\* into the window.
C34_SentinelExitRule ==
    [][\A a \in Aggs :
         LoopGot(a) =>
            LET d == received_data[a]
                sentinel == /\ ~keep_running_[a]
                            /\ d.mac_address = ""
                            /\ d.predefined_name = ""
                            /\ d.decoded_device_name = ""
            IN  /\ sentinel
                      => /\ loop_pc'[a] = "exited"
                         /\ latest_samples_in_window_'[a] = latest_samples_in_window_[a]
                /\ ~sentinel
                      => /\ loop_pc'[a] = "check"
                         /\ [key |-> d.mac_address, value |-> d]
                               \in latest_samples_in_window_'[a]
                         /\ \A e \in latest_samples_in_window_'[a] :
                               e.key = d.mac_address => e.value = d]_vars

\* C34 witness: while stopConsuming() waits for the loop, whose keep_running_
\* is already false, the loop has upserted a Reading of an address that was
\* not in the window when the stop was requested.
C34_Witness ==
    /\ stopSnap.active
    /\ ctl_pc = "join"
    /\ ~keep_running_[ctl_agg]
    /\ loop_pc[ctl_agg] = "check"
    /\ \E k \in Macs : /\ k \in MapKeys(latest_samples_in_window_[ctl_agg])
                       /\ k \notin stopSnap.keys

\* C35 as stated: the timeout passed to pop is always strictly positive and
\* never larger than the configured window duration.
C35_TimeoutWithinWindowAlways ==
    win_pc = "pop"
       => /\ timeout_ms > 0
          /\ timeout_ms <= SecondsToMs(logging_window_seconds)

\* C35: for a configured window of at least one second the timeout passed to
\* pop is strictly positive and never larger than the window duration: it is
\* the remaining time to the window deadline, replaced by one millisecond
\* when the remaining time is zero or negative. For every window duration,
\* also zero or below, it is strictly positive.
C35_TimeoutWithinWindow ==
    win_pc = "pop"
       => LET duration == SecondsToMs(logging_window_seconds)
          IN  /\ timeout_ms > 0
              /\ logging_window_seconds >= 1 => timeout_ms <= duration
              /\ duration - elapsed_ms > 0 => timeout_ms = duration - elapsed_ms
              /\ duration - elapsed_ms <= 0 => timeout_ms = 1

\* C35 witness: in a window of one second the clock shows 1000 ms at the head
\* of the loop, no time remains, and the loop passes 1 ms to pop.
C35_Witness ==
    /\ win_pc = "pop"
    /\ logging_window_seconds = 1
    /\ elapsed_ms = 1000
    /\ timeout_ms = 1

\* the threads that are reading or writing the window mapping
WindowUsers ==
    (IF own_loop_pc \in {"upsert", "flush"} THEN {"loop"} ELSE {})
       \cup (IF own_stop_pc = "flush" THEN {"stop"} ELSE {})

\* C36: the window mapping of an aggregator is read or written by at most one
\* thread at a time, which then holds latest_samples_mutex_, and the flush
\* inside stopConsuming() starts only after the loop thread has terminated, so
\* it never overlaps with a loop upsert or a loop flush.
C36_ExclusiveWindowOwnership ==
    /\ Cardinality(WindowUsers) <= 1
    /\ \A t \in WindowUsers : latest_samples_mutex_ = t
    /\ own_stop_pc \in {"flush_lock", "flush", "returned"} => own_loop_pc = "exited"

\* C36 witness: stopConsuming() is flushing a window that holds a reading,
\* after a loop that made an upsert has terminated.
C36_Witness ==
    /\ own_stop_pc = "flush"
    /\ own_window # {}
    /\ own_loop_pc = "exited"

\* the number of times item was returned to consumer c
TimesReturned(c, item) ==
    Cardinality({ i \in 1..Len(mq_ret[c]) : mq_ret[c][i] = item })

\* C37: when several consumers pop from the same queue, each pushed item is
\* returned to at most one of them and never twice, every item returned was
\* pushed, and the number of items popped never exceeds the number pushed;
\* the items pushed are those returned and those still in the queue.
C37_SharedQueueConservation ==
    /\ \A item \in 1..MaxItems :
          /\ TimesReturned("c1", item) + TimesReturned("c2", item) <= 1
          /\ TimesReturned("c1", item) + TimesReturned("c2", item) = 1
                => item <= mq_pushed
          /\ item <= mq_pushed =>
                TimesReturned("c1", item) + TimesReturned("c2", item)
                   + Cardinality({ i \in 1..Len(mq_queue) : mq_queue[i] = item }) = 1
    /\ Len(ItemsOf("c1")) + Len(ItemsOf("c2")) <= mq_pushed

\* C37 witness: both consumers popped from a queue that got three items;
\* each item went to one of them, two to the first and one to the second.
C37_Witness ==
    /\ mq_pushed = 3
    /\ mq_queue = << >>
    /\ Len(ItemsOf("c1")) = 2
    /\ Len(ItemsOf("c2")) = 1
    /\ ItemsOf("c2") = << 2 >>

\* C38: no empty aggregate is ever emitted: every write call an aggregator
\* makes to its sink, on the deadline path and on the shutdown path, hands over
\* the serialization of its window mapping, which then has at least one
\* entry; the count of the blob is at least 1 and it has that many entries.
C38_NoEmptyAggregate ==
    /\ [][\A a \in Aggs :
             attempts'[a] # attempts[a] =>
                /\ latest_samples_in_window_[a] # {}
                /\ sink'[a] = serializeSensorDataMap(latest_samples_in_window_[a])
                /\ sink'[a].count >= 1
                /\ Len(sink'[a].entries) = sink'[a].count]_vars
    /\ [](\A a \in Aggs : attempts[a] > 0 => sink[a].count >= 1)

\* C38 witness: an aggregator wrote one blob at a deadline and a second one,
\* of two entries, in the flush of stopConsuming().
C38_Witness ==
    /\ ctl_pc = "returned"
    /\ stopSnap.writes = 1
    /\ attempts[ctl_agg] = 2
    /\ sink[ctl_agg].count = 2

\* C39: once a call of stopScan() has returned, the scan thread invokes no
\* device handler (and so pushes no Reading), in every interleaving of the
\* stopping thread with a running scan loop.
C39_QuiescentAfterStop == qui_late_calls = 0

\* C40: the two decoders agree on the name: for every payload and length the
\* name the sensor decode pass (parse_advertising_data_tp357) returns equals
\* the name the general name pass (parse_advertising_data_general) returns
\* for the same bytes, so a handler that decodes a payload again sees the
\* name that dispatch matched on.
C40_DecodersAgreeOnName ==
    (dec_pc = "done" /\ dec_kind = "tp357")
       => device_name_out = GeneralNameFrom(dec_data, dec_stale, dec_len, 0, << >>)

\* C40 witness: the sensor decode pass has finished on a payload with a
\* complete name and a shortened name behind it and returns the second one.
C40_Witness ==
    /\ dec_pc = "done"
    /\ dec_kind = "tp357"
    /\ dec_recs = << Record(AD_TYPE_COMPLETE_LOCAL_NAME, << 65 >>),
                     Record(AD_TYPE_SHORT_LOCAL_NAME, << 66, 67 >>) >>
    /\ dec_len = Len(dec_data)
    /\ device_name_out = << 66, 67 >>

====
